---- MODULE Spec2Model ----
(***************************************************************************)
(* Daily incremental cohort assignment of dataquery-pro                    *)
(* (database-backend/database.py, main.py): campaign creation through the   *)
(* stratification endpoint, the daily distribution of newly-qualifying     *)
(* identifiers over the active campaigns and their existing groups, and    *)
(* the control / primary-target / secondary-mirror sink writes; the        *)
(* scheduler that starts the daily run (scheduler.py); and the stratified  *)
(* split with its sampled path and validation loop (stratification.py).    *)
(***************************************************************************)
EXTENDS Integers, Sequences, FiniteSets, TLC

\* ------------------------------------------------------------------ bounds
MaxIIN == 6
MaxStratified == 1
MaxLegacy == 1
MaxNumGroups == 3
MaxFaults == 1
MaxCreateFaults == 1
MaxCronFires == 2
MaxRequests == 2
MaxCandidates == 2
MaxStrata == 3
MaxStratumSize == 4
MaxSplits == 3
MaxIterations == 3
MaxP == 2
MaxColumns == 2
MaxSeed == 1
MaxTestColumns == 2

\* ------------------------------------------------------- program constants
MinGroups == 3
MaxGroups == 5
IdWidth == 8
max_workers == 1
max_instances == 1
MinSamplesPerStratum == 10
VeryLargeRows == 1500000
SeedStride == 1000
DefaultMaxIterations == 100
ErrorP == 5
BalancedP == 10
Whole == 100
MinSplits == 2
MaxSplitsAllowed == 10

None == "None"

\* ------------------------------------------------------------ identifiers
\* A theory id is a character string, modelled as a sequence of
\* one-character strings.
DigitChars == <<"0", "1", "2", "3", "4", "5", "6", "7", "8", "9">>

IsDigit(c) == \E d \in 1..10 : DigitChars[d] = c

DigitVal(c) == (CHOOSE d \in 1..10 : DigitChars[d] = c) - 1

\* character order of the storage collation (binary): '.' < digits < letters
Ord(c) == IF c = "." THEN 0
          ELSE IF IsDigit(c) THEN 1 + DigitVal(c)
          ELSE IF c = "C" THEN 20 ELSE 30

RECURSIVE str(_)
str(n) == IF n < 10 THEN <<DigitChars[n + 1]>>
          ELSE str(n \div 10) \o <<DigitChars[(n % 10) + 1]>>

RECURSIVE ZeroPad(_, _)
ZeroPad(s, w) == IF Len(s) >= w THEN s ELSE ZeroPad(<<"0">> \o s, w)

RECURSIVE int(_)
int(s) == IF Len(s) = 1 THEN DigitVal(s[1])
          ELSE 10 * int(SubSeq(s, 1, Len(s) - 1)) + DigitVal(s[Len(s)])

AllDigits(s) == Len(s) >= 1 /\ \A k \in 1..Len(s) : IsDigit(s[k])

HasDot(s) == \E k \in 1..Len(s) : s[k] = "."

FirstDot(s) == CHOOSE k \in 1..Len(s) : s[k] = "." /\ \A j \in 1..(k - 1) : s[j] # "."

LastDot(s) == CHOOSE k \in 1..Len(s) : s[k] = "." /\ \A j \in (k + 1)..Len(s) : s[j] # "."

\* s.split(".")[0]
SplitFirst(s) == IF HasDot(s) THEN SubSeq(s, 1, FirstDot(s) - 1) ELSE s

\* s.split(".")[-1]
SplitLast(s) == IF HasDot(s) THEN SubSeq(s, LastDot(s) + 1, Len(s)) ELSE s

\* a pattern that matches every value
LikeAny(value, prefix) == TRUE

\* SQL: value LIKE 'prefix%'
Like(value, prefix) ==
    /\ Len(prefix) <= Len(value)
    /\ SubSeq(value, 1, Len(prefix)) = prefix

\* lexicographic order of two strings (ORDER BY theory_id)
RECURSIVE StrLess(_, _)
StrLess(a, b) ==
    IF Len(a) = 0 THEN Len(b) > 0
    ELSE IF Len(b) = 0 THEN FALSE
    ELSE IF Ord(a[1]) # Ord(b[1]) THEN Ord(a[1]) < Ord(b[1])
    ELSE StrLess(Tail(a), Tail(b))

\* REGEXP_LIKE(theory_id, '^SC[0-9]{8}\.[0-9]+$')
IsSCSubId(s) ==
    /\ Len(s) >= IdWidth + 4
    /\ s[1] = "S" /\ s[2] = "C"
    /\ AllDigits(SubSeq(s, 3, IdWidth + 2))
    /\ s[IdWidth + 3] = "."
    /\ AllDigits(SubSeq(s, IdWidth + 4, Len(s)))

\* REGEXP_LIKE(theory_id, '^[0-9]+(\.[0-9]+)?$')
IsNumericId(s) ==
    \/ AllDigits(s)
    \/ /\ HasDot(s)
       /\ FirstDot(s) = LastDot(s)
       /\ FirstDot(s) > 1 /\ FirstDot(s) < Len(s)
       /\ AllDigits(SubSeq(s, 1, FirstDot(s) - 1))
       /\ AllDigits(SubSeq(s, FirstDot(s) + 1, Len(s)))

SetMax(S) == IF S = {} THEN 0 ELSE CHOOSE m \in S : \A x \in S : x <= m

Min(a, b) == IF a < b THEN a ELSE b

\* the elements of a sequence
Range(s) == {s[k] : k \in 1..Len(s)}

\* ---------------------------------------------------------------- storage
VARIABLES
    SoftCollection_theories,   \* campaign rows [theory_id, active]
    SC_local_control,          \* control sink rows [IIN, THEORY_ID, tab_values]
    SC_local_target,           \* primary target sink rows
    SC_theory_users            \* secondary (mirror) sink rows

storageVars == <<SoftCollection_theories, SC_local_control, SC_local_target, SC_theory_users>>

\* ----------------------------------------------------------- daily run state
VARIABLES
    pc,                \* position of process_daily_user_distribution
    process_result,    \* the run report
    campaigns,         \* campaigns_result["campaigns"]
    iin_values,        \* spss_users_result["iin_values"]
    distribution_result, \* result of distribute_users_to_campaigns
    results,           \* insert_daily_distributed_users: results
    campaign_result,   \* insert_daily_distributed_users: campaign_result
    ci, gi,            \* insert_daily_distributed_users: loop positions
    allocation,        \* history: the slices cut by distribute_users_to_campaigns
    writes,            \* history: the sink writes attempted by the run
    scan,              \* environment: row order of an unordered SELECT
    faults,            \* environment: failures injected into the daily run so far
    create_faults      \* environment: failures injected into campaign creation so far

runVars == <<pc, process_result, campaigns, iin_values, distribution_result,
             results, campaign_result, ci, gi, allocation, writes>>

envVars == <<scan, faults, create_faults>>

\* --------------------------------------------------------------- scheduler
VARIABLES
    is_running,        \* DailyDistributionScheduler.is_running
    job_instances,     \* running instances of the job 'daily_user_distribution'
    run_stage,         \* per thread: the stage of the run it executes, or "idle"
    run_iins,          \* per thread: the identifiers its run has read
    sink_rows,         \* per identifier: the rows the runs have written for it
    cron_fires,        \* environment: firings of the cron trigger so far
    requests,          \* environment: POST /scheduler/test-distribution so far
    missed             \* firings skipped because the job was still running

schedVars == <<is_running, job_instances, run_stage, run_iins, sink_rows,
               cron_fires, requests, missed>>

\* ----------------------------------------------------------- stratification
VARIABLES
    st_pc,             \* position of stratify_data
    request,           \* the StratificationRequest
    df,                \* the rows kept for splitting
    test_df,           \* the held-out test split
    iteration,         \* stratify_data: iteration
    criteria_met,      \* stratify_data: criteria_met
    best_splits,       \* stratify_data: best_splits
    best_ks_scores,    \* stratify_data: best_ks_scores
    best_min_p_values, \* stratify_data: best_min_p_values
    attempts,          \* history: seed, groups and minima of every attempt made
    response,          \* the dict stratify_data returns
    st_error           \* the exception stratify_data raised, if any

stratVars == <<st_pc, request, df, test_df, iteration, criteria_met, best_splits,
               best_ks_scores, best_min_p_values, attempts, response, st_error>>

\* ------------------------------------------------------------ balance tests
VARIABLES
    bt_pc,             \* position of the loop that fills test_dict for one split
    bt_path,           \* the function the loop runs in
    test_columns,      \* the monitored columns, each with what its test meets
    test_dict          \* the entries written so far, in the order of test_columns

balanceVars == <<bt_pc, bt_path, test_columns, test_dict>>

vars == <<storageVars, runVars, envVars, schedVars, stratVars, balanceVars>>

\* ------------------------------------------------------------- sink writes
SinkFaults == {"none", "connect", "commit"}

\* what the environment does to one sink write: a fault of the connection
\* (on connect, or on commit after the loop) and the identifiers whose
\* INSERT raises
Disturbances(iins) ==
    {[fault |-> f, failed |-> {}] : f \in {"connect", "commit"}}
        \cup {[fault |-> "none", failed |-> F] : F \in SUBSET Range(iins)}

Calm == [fault |-> "none", failed |-> {}]

Cost(env) == IF env = Calm THEN 0 ELSE 1

Msg(text, count, error) == [text |-> text, count |-> count, error |-> error]

Row(iin, theory_id, tabs) == [IIN |-> iin, THEORY_ID |-> theory_id, tab_values |-> tabs]

NoSink == [success |-> FALSE, inserted_count |-> 0, message |-> Msg("", 0, None)]

\* additional_fields or {} ; tab_fields.get('tabN', None)
TabFields(additional_fields) ==
    [tab1 |-> additional_fields.tab1, tab2 |-> additional_fields.tab2,
     tab3 |-> additional_fields.tab3, tab4 |-> additional_fields.tab4,
     tab5 |-> additional_fields.tab5]

\* the loop that stops at the first identifier whose INSERT raises
RECURSIVE InsertLoopAbort(_, _)
InsertLoopAbort(iins, failed) ==
    IF Len(iins) = 0 THEN [attempted |-> <<>>, inserted |-> <<>>, inserted_count |-> 0]
    ELSE IF iins[1] \in failed
    THEN [attempted |-> <<iins[1]>>, inserted |-> <<>>, inserted_count |-> 0]
    ELSE LET rest == InsertLoopAbort(Tail(iins), failed)
         IN [attempted |-> <<iins[1]>> \o rest.attempted,
             inserted |-> <<iins[1]>> \o rest.inserted,
             inserted_count |-> rest.inserted_count + 1]

\* the per-identifier loop "for iin in iin_values: try execute / except continue"
RECURSIVE InsertLoop(_, _)
InsertLoop(iins, failed) ==
    IF Len(iins) = 0 THEN [attempted |-> <<>>, inserted |-> <<>>, inserted_count |-> 0]
    ELSE LET rest == InsertLoop(Tail(iins), failed)
             ok == iins[1] \notin failed
         IN [attempted |-> <<iins[1]>> \o rest.attempted,
             inserted |-> IF ok THEN <<iins[1]>> \o rest.inserted ELSE rest.inserted,
             inserted_count |-> IF ok THEN rest.inserted_count + 1 ELSE rest.inserted_count]

\* a sink write that reports the rows of its loop although it failed
SinkOutcomeCounting(sink, theory_id, iins, tabs, env, loop, okText, errText) ==
    LET result == [success |-> env.fault = "none", inserted_count |-> loop.inserted_count,
                   message |-> Msg(IF env.fault = "none" THEN okText ELSE errText,
                                   loop.inserted_count,
                                   IF env.fault = "none" THEN None ELSE env.fault)]
    IN [result |-> result,
        rows |-> IF env.fault = "none"
                 THEN {Row(loop.inserted[k], theory_id, tabs) : k \in 1..Len(loop.inserted)}
                 ELSE {},
        attempt |-> [sink |-> sink, theory_id |-> theory_id, iin_values |-> iins,
                     tab_values |-> tabs, env |-> env,
                     attempted |-> IF env.fault = "connect" THEN <<>> ELSE loop.attempted,
                     result |-> result]]

\* one sink write: connect, loop, commit; the rows reach the table only
\* when the commit is reached.  attempt is the history of the call
SinkOutcome(sink, theory_id, iins, tabs, env, loop, okText, errText) ==
    LET result == IF env.fault = "none"
                  THEN [success |-> TRUE, inserted_count |-> loop.inserted_count,
                        message |-> Msg(okText, loop.inserted_count, None)]
                  ELSE [success |-> FALSE, inserted_count |-> 0,
                        message |-> Msg(errText, 0, env.fault)]
    IN [result |-> result,
        rows |-> IF env.fault = "none"
                 THEN {Row(loop.inserted[k], theory_id, tabs) : k \in 1..Len(loop.inserted)}
                 ELSE {},
        attempt |-> [sink |-> sink, theory_id |-> theory_id, iin_values |-> iins,
                     tab_values |-> tabs, env |-> env,
                     attempted |-> IF env.fault = "connect" THEN <<>> ELSE loop.attempted,
                     result |-> result]]

SinkWrite(sink, theory_id, iins, additional_fields, env, okText, errText) ==
    SinkOutcome(sink, theory_id, iins, TabFields(additional_fields), env,
                InsertLoop(iins, env.failed), okText, errText)

insert_control_group(theory_id, iins, additional_fields, env) ==
    SinkWrite("SC_local_control", theory_id, iins, additional_fields, env,
              "Inserted users into control group", "Failed to insert control group")

insert_into_spss_theory_users(theory_id, iins, additional_fields, env) ==
    SinkWrite("SC_theory_users", theory_id, iins, additional_fields, env,
              "Inserted users into SPSS SC_theory_users table",
              "Failed to insert into SPSS SC_theory_users")

\* the mirror written only after a successful primary write
insert_target_groups_gated(theory_id, iins, additional_fields, env1, env2) ==
    LET dssb == SinkWrite("SC_local_target", theory_id, iins, additional_fields, env1,
                          "Inserted users into DSSB_APP SC_local_target",
                          "Failed to insert into DSSB_APP SC_local_target")
        spss == insert_into_spss_theory_users(theory_id, iins, additional_fields, env2)
        dssb_success == dssb.result.success
        spss_success == dssb_success /\ spss.result.success
        spss_result == IF dssb_success THEN spss.result ELSE NoSink
        total_inserted == (IF dssb_success THEN dssb.result.inserted_count ELSE 0)
                          + (IF spss_success THEN spss.result.inserted_count ELSE 0)
        detailed == [dssb_app |-> dssb.result, spss |-> spss_result,
                     overall_success |-> dssb_success, total_inserted |-> total_inserted]
    IN [result |-> [success |-> dssb_success,
                    inserted_count |-> IF dssb_success THEN dssb.result.inserted_count ELSE 0,
                    message |-> Msg("", 0, dssb.result.message.error),
                    detailed_results |-> detailed],
        primary_rows |-> dssb.rows,
        secondary_rows |-> IF dssb_success THEN spss.rows ELSE {},
        attempts |-> IF dssb_success THEN <<dssb.attempt, spss.attempt>> ELSE <<dssb.attempt>>]

\* the overall success that requires both sinks
insert_target_groups_strict(theory_id, iins, additional_fields, env1, env2) ==
    LET dssb == SinkWrite("SC_local_target", theory_id, iins, additional_fields, env1,
                          "Inserted users into DSSB_APP SC_local_target",
                          "Failed to insert into DSSB_APP SC_local_target")
        spss == insert_into_spss_theory_users(theory_id, iins, additional_fields, env2)
        both == dssb.result.success /\ spss.result.success
        total_inserted == (IF dssb.result.success THEN dssb.result.inserted_count ELSE 0)
                          + (IF spss.result.success THEN spss.result.inserted_count ELSE 0)
        detailed == [dssb_app |-> dssb.result, spss |-> spss.result,
                     overall_success |-> both, total_inserted |-> total_inserted]
    IN [result |-> [success |-> both,
                    inserted_count |-> IF both THEN dssb.result.inserted_count ELSE 0,
                    message |-> Msg("", 0, IF dssb.result.success THEN spss.result.message.error
                                           ELSE dssb.result.message.error),
                    detailed_results |-> detailed],
        primary_rows |-> dssb.rows,
        secondary_rows |-> spss.rows,
        attempts |-> <<dssb.attempt, spss.attempt>>]

\* insert_target_groups, the report built from the results of both writes
TargetReport(dssb, spss) ==
    LET dssb_success == dssb.result.success
        spss_success == spss.result.success
        total_inserted == (IF dssb_success THEN dssb.result.inserted_count ELSE 0)
                          + (IF spss_success THEN spss.result.inserted_count ELSE 0)
        detailed == [dssb_app |-> dssb.result, spss |-> spss.result,
                     overall_success |-> dssb_success, total_inserted |-> total_inserted]
        text == IF dssb_success /\ spss_success THEN "Successfully inserted into both databases"
                ELSE IF dssb_success THEN "Primary insertion successful. SPSS duplication failed"
                ELSE "Primary insertion failed"
    IN [result |-> [success |-> dssb_success,
                    inserted_count |-> IF dssb_success THEN dssb.result.inserted_count ELSE 0,
                    message |-> Msg(text, 0, IF dssb_success /\ ~spss_success
                                             THEN spss.result.message.error
                                             ELSE dssb.result.message.error),
                    detailed_results |-> detailed],
        primary_rows |-> dssb.rows,
        secondary_rows |-> spss.rows,
        attempts |-> <<dssb.attempt, spss.attempt>>]

\* the primary write, then the mirror write whatever the primary returned
insert_target_groups(theory_id, iins, additional_fields, env1, env2) ==
    TargetReport(SinkWrite("SC_local_target", theory_id, iins, additional_fields, env1,
                           "Inserted users into DSSB_APP SC_local_target",
                           "Failed to insert into DSSB_APP SC_local_target"),
                 insert_into_spss_theory_users(theory_id, iins, additional_fields, env2))

\* ------------------------------------------------------ campaign creation
TheoryIds == {r.theory_id : r \in SoftCollection_theories}

\* get_next_sc_campaign_id: f"SC{next:08d}"
get_next_sc_campaign_id ==
    LET nums == {IF IsSCSubId(t) THEN int(SubSeq(t, 3, IdWidth + 2)) ELSE 0 : t \in TheoryIds}
    IN <<"S", "C">> \o ZeroPad(str(SetMax(nums) + 1), IdWidth)

\* get_next_theory_id: highest numeric base id + 1
get_next_theory_id ==
    LET nums == {int(SplitFirst(t)) : t \in {u \in TheoryIds : IsNumericId(u)}}
    IN SetMax(nums) + 1

\* create_theory: one campaign row with a numeric id, no group rows
create_theory(active) ==
    SoftCollection_theories \cup {[theory_id |-> str(get_next_theory_id), active |-> active]}

GroupLetters == <<"A", "B", "C", "D", "E", "F", "G", "H", "I">>

\* the request of the modelled stratification: group i of the result holds
\* the single identifier i, and groupFields configures tab1..tab4 of group 2
\* only, so that both branches of "get_group_field(...) or ..." are taken
GroupIins(i) == <<i>>

groupFields == [tab1 |-> "tab1 of group 2", tab2 |-> "tab2 of group 2",
                tab3 |-> "tab3 of group 2", tab4 |-> "tab4 of group 2"]

get_group_field(group_index, field_name) ==
    IF group_index + 1 = 2 THEN groupFields[field_name] ELSE None

Descriptions == <<"description (group A)", "description (group B)", "description (group C)",
                  "description (group D)", "description (group E)", "description (group F)">>

theory_description(group_index) == Descriptions[group_index + 1]

additional_fields_of(i) ==
    [tab1 |-> IF get_group_field(i, "tab1") # None THEN get_group_field(i, "tab1")
              ELSE theory_description(i),
     tab2 |-> get_group_field(i, "tab2"),
     tab3 |-> get_group_field(i, "tab3"),
     tab4 |-> get_group_field(i, "tab4"),
     tab5 |-> None]

sub_theory_id(base_campaign_id, i) == base_campaign_id \o <<".">> \o str(i + 1)

\* what the environment does to the creation of group i: the campaign row
\* insert may fail, and each sink write may be disturbed
CreateEnvs(i) ==
    {[theory_ok |-> FALSE, env1 |-> Calm, env2 |-> Calm]}
        \cup {[theory_ok |-> TRUE, env1 |-> e1, env2 |-> e2] :
                e1 \in Disturbances(GroupIins(i + 1)),
                e2 \in IF i = 0 THEN {Calm} ELSE Disturbances(GroupIins(i + 1))}

CreateCost(e) == (IF e.theory_ok THEN 0 ELSE 1) + Cost(e.env1) + Cost(e.env2)

RECURSIVE SeqCost(_)
SeqCost(es) == IF Len(es) = 0 THEN 0 ELSE CreateCost(es[1]) + SeqCost(Tail(es))

\* the environments of groups 0..k-1 that inject at most budget failures
RECURSIVE CreateEnvSeqs(_, _)
CreateEnvSeqs(k, budget) ==
    IF k = 0 THEN {<<>>}
    ELSE UNION {{Append(es, e) : e \in {x \in CreateEnvs(k - 1) : SeqCost(es) + CreateCost(x) <= budget}} :
                es \in CreateEnvSeqs(k - 1, budget)}

\* stratify_and_create_theories, the loop over the stratified groups:
\* group 0 goes to the control sink, every other group to both target sinks
GroupWrite(base_campaign_id, i, e) ==
    IF i = 0
    THEN LET w == insert_control_group(sub_theory_id(base_campaign_id, i), GroupIins(i + 1),
                                       additional_fields_of(i), e.env1)
         IN [control |-> w.rows, primary |-> {}, secondary |-> {}]
    ELSE LET w == insert_target_groups(sub_theory_id(base_campaign_id, i), GroupIins(i + 1),
                                       additional_fields_of(i), e.env1, e.env2)
         IN [control |-> {}, primary |-> w.primary_rows, secondary |-> w.secondary_rows]

StratifiedCount == Cardinality({SplitFirst(t) : t \in {u \in TheoryIds : IsSCSubId(u)}})

LegacyCount == Cardinality({t \in TheoryIds : IsNumericId(t)})

\* ------------------------------------------------------------------- Init
NoResult == [success |-> FALSE, process_stage |-> "initialization", campaigns_found |-> 0,
             users_found |-> 0, users_distributed |-> 0, error_message |-> None,
             skip_reason |-> None]

NoDistribution == [success |-> FALSE, distributions |-> <<>>, total_users_distributed |-> 0]

NoResults == [total_inserted |-> 0, campaign_results |-> <<>>, success |-> TRUE]

NoCampaignResult == [base_campaign_id |-> <<>>, group_results |-> <<>>, total_inserted |-> 0,
                     success |-> TRUE]

ScanOrders == {"ascending", "descending"}

\* the threads that can execute process_daily_user_distribution: the worker
\* of the scheduler's executor, and the event loop (the request handler)
Threads == {"worker", "event_loop"}

\* the identifiers the candidate query returns while the runs execute
Candidates == 1..MaxCandidates

SchedulerInit ==
    /\ is_running = FALSE
    /\ job_instances = 0
    /\ run_stage = [t \in Threads |-> "idle"]
    /\ run_iins = [t \in Threads |-> {}]
    /\ sink_rows = [i \in Candidates |-> 0]
    /\ cron_fires = 0
    /\ requests = 0
    /\ missed = 0

NoRequest == [data |-> <<>>]

NoResponse == [stratified_groups |-> <<>>]

\* an optional value: Nothing is Python's None
Nothing == <<>>

Some(v) == <<v>>

StratifyInit ==
    /\ st_pc = "idle"
    /\ request = NoRequest
    /\ df = {}
    /\ test_df = Nothing
    /\ iteration = 0
    /\ criteria_met = FALSE
    /\ best_splits = Nothing
    /\ best_ks_scores = Nothing
    /\ best_min_p_values = Nothing
    /\ attempts = <<>>
    /\ response = NoResponse
    /\ st_error = None

BalanceInit ==
    /\ bt_pc = "idle"
    /\ bt_path = "regular"
    /\ test_columns = <<>>
    /\ test_dict = <<>>

Init ==
    /\ SoftCollection_theories = {}
    /\ SC_local_control = {}
    /\ SC_local_target = {}
    /\ SC_theory_users = {}
    /\ pc = "idle"
    /\ process_result = NoResult
    /\ campaigns = <<>>
    /\ iin_values = <<>>
    /\ distribution_result = NoDistribution
    /\ results = NoResults
    /\ campaign_result = NoCampaignResult
    /\ ci = 1
    /\ gi = 1
    /\ allocation = <<>>
    /\ writes = <<>>
    /\ scan \in ScanOrders
    /\ faults = 0
    /\ create_faults = 0
    /\ SchedulerInit
    /\ StratifyInit
    /\ BalanceInit

\* ------------------------------------------------- actions: campaign creation
\* POST /theories/create (create_theory_endpoint)
CreateTheory ==
    /\ pc = "idle"
    /\ LegacyCount < MaxLegacy
    /\ \E active \in BOOLEAN :
         SoftCollection_theories' = create_theory(active)
    /\ UNCHANGED <<SC_local_control, SC_local_target, SC_theory_users, runVars, envVars>>
    /\ UNCHANGED <<schedVars, stratVars, balanceVars>>

\* POST /theories/stratify-and-create (stratify_and_create_theories)
StratifyAndCreate ==
    /\ pc = "idle"
    /\ StratifiedCount < MaxStratified
    /\ \E numGroups \in MinGroups..Min(MaxGroups, MaxNumGroups), active \in BOOLEAN :
       \E es \in CreateEnvSeqs(numGroups, MaxCreateFaults - create_faults) :
         LET base_campaign_id == get_next_sc_campaign_id
             created == {i \in 0..(numGroups - 1) : es[i + 1].theory_ok}
             w == [i \in created |-> GroupWrite(base_campaign_id, i, es[i + 1])]
         IN /\ create_faults' = create_faults + SeqCost(es)
            /\ SoftCollection_theories' = SoftCollection_theories \cup
                 {[theory_id |-> sub_theory_id(base_campaign_id, i), active |-> active] : i \in created}
            /\ SC_local_control' = SC_local_control \cup UNION {w[i].control : i \in created}
            /\ SC_local_target' = SC_local_target \cup UNION {w[i].primary : i \in created}
            /\ SC_theory_users' = SC_theory_users \cup UNION {w[i].secondary : i \in created}
    /\ UNCHANGED <<runVars, scan, faults>>
    /\ UNCHANGED <<schedVars, stratVars, balanceVars>>

\* ------------------------------------------------------ storage collaborator
\* a finite set of strings as the list in ascending order
RECURSIVE SortIds(_)
SortIds(S) ==
    IF S = {} THEN <<>>
    ELSE LET m == CHOOSE x \in S : \A y \in S : ~StrLess(y, x)
         IN <<m>> \o SortIds(S \ {m})

Reverse(s) == [k \in 1..Len(s) |-> s[Len(s) + 1 - k]]

\* the query without its WHERE clause
get_all_campaigns_for_daily_process ==
    LET ids == SortIds({r.theory_id : r \in SoftCollection_theories})
    IN [k \in 1..Len(ids) |-> [theory_id |-> ids[k]]]

\* get_active_campaigns_for_daily_process:
\* WHERE SYSDATE BETWEEN theory_start_date AND theory_end_date ORDER BY theory_id
get_active_campaigns_for_daily_process ==
    LET ids == SortIds({r.theory_id : r \in {x \in SoftCollection_theories : x.active}})
    IN [k \in 1..Len(ids) |-> [theory_id |-> ids[k]]]

\* the rows of SELECT DISTINCT THEORY_ID, tab1..tab5 FROM table WHERE THEORY_ID LIKE base%,
\* in the order the scan returns them
RECURSIVE RowsOf(_, _)
RowsOf(ids, rows) ==
    IF Len(ids) = 0 THEN <<>>
    ELSE LET mine == {r \in rows : r.THEORY_ID = ids[1]}
             RECURSIVE list(_)
             list(R) == IF R = {} THEN <<>>
                        ELSE LET r == CHOOSE x \in R : TRUE IN <<r>> \o list(R \ {r})
         IN list(mine) \o RowsOf(Tail(ids), rows)

Select(table, base_campaign_id) ==
    LET rows == {[THEORY_ID |-> r.THEORY_ID, tab_values |-> r.tab_values] :
                    r \in {x \in table : Like(x.THEORY_ID, base_campaign_id)}}
        ids == SortIds({r.THEORY_ID : r \in rows})
    IN RowsOf(IF scan = "ascending" THEN ids ELSE Reverse(ids), rows)

\* d[key] = value on an insertion-ordered dict, kept as a list of entries
RECURSIVE DictPut(_, _, _)
DictPut(d, key, value) ==
    IF Len(d) = 0 THEN <<[key |-> key, value |-> value]>>
    ELSE IF d[1].key = key THEN <<[key |-> key, value |-> value]>> \o Tail(d)
    ELSE <<d[1]>> \o DictPut(Tail(d), key, value)

RECURSIVE PutRows(_, _, _, _)
PutRows(d, rows, table, group_type) ==
    IF Len(rows) = 0 THEN d
    ELSE PutRows(DictPut(d, rows[1].THEORY_ID,
                         [table |-> table, group_type |-> group_type,
                          tab_values |-> rows[1].tab_values]),
                 Tail(rows), table, group_type)

\* the lookup that labels the rows of each table with the other type
get_existing_campaign_groups_swapped(base_campaign_id) ==
    PutRows(PutRows(<<>>, Select(SC_local_control, base_campaign_id), "SC_local_control", "target"),
            Select(SC_local_target, base_campaign_id), "SC_local_target", "control")

\* get_existing_campaign_groups: the control rows first, then the target rows
get_existing_campaign_groups(base_campaign_id) ==
    PutRows(PutRows(<<>>, Select(SC_local_control, base_campaign_id), "SC_local_control", "control"),
            Select(SC_local_target, base_campaign_id), "SC_local_target", "target")

\* ------------------------------------------------ distribute_users_to_campaigns
\* the Python slice s[a:b]
Slice(s, a, b) == SubSeq(s, Min(a, Len(s)) + 1, Min(b, Len(s)))

\* the remainder handed to the first campaigns instead of the last
users_for_campaign_first(i, total_users, total_campaigns) ==
    (total_users \div total_campaigns)
        + (IF i < total_users % total_campaigns THEN 1 ELSE 0)

\* base_count + (1 if i >= (total_campaigns - remainder) else 0)
users_for_campaign(i, total_users, total_campaigns) ==
    (total_users \div total_campaigns)
        + (IF i >= total_campaigns - (total_users % total_campaigns) THEN 1 ELSE 0)

\* the comparison with > for >=
users_for_group_strict(group_idx, campaign_total, group_count) ==
    (campaign_total \div group_count)
        + (IF group_idx > group_count - (campaign_total % group_count) THEN 1 ELSE 0)

\* users_per_group + (1 if group_idx >= (group_count - group_remainder) else 0)
users_for_group(group_idx, campaign_total, group_count) ==
    (campaign_total \div group_count)
        + (IF group_idx >= group_count - (campaign_total % group_count) THEN 1 ELSE 0)

\* chr(ord('A') + int(suffix) - 1)
group_letter(theory_id) ==
    LET suffix == IF HasDot(theory_id) THEN SplitLast(theory_id) ELSE <<"1">>
        n == int(suffix)
    IN IF n \in 1..Len(GroupLetters) THEN GroupLetters[n] ELSE "?"

\* int(suffix) raises ValueError
BadSuffix(theory_id) == HasDot(theory_id) /\ ~AllDigits(SplitLast(theory_id))

\* the loop over existing_groups.items() of one campaign
RECURSIVE DistributeGroups(_, _, _, _, _)
DistributeGroups(existing_groups, campaign_users, group_idx, group_start_idx, group_distributions) ==
    IF group_idx >= Len(existing_groups) THEN group_distributions
    ELSE LET theory_id == existing_groups[group_idx + 1].key
             group_info == existing_groups[group_idx + 1].value
             group_end_idx == group_start_idx
                                + users_for_group(group_idx, Len(campaign_users), Len(existing_groups))
             group_users == Slice(campaign_users, group_start_idx, group_end_idx)
             next == IF Len(group_users) > 0
                     THEN DictPut(group_distributions, group_letter(theory_id),
                                  [users |-> group_users,
                                   theory_id |-> theory_id,
                                   group_type |-> group_info.group_type,
                                   target_table |-> group_info.table,
                                   tab_values |-> group_info.tab_values])
                     ELSE group_distributions
         IN DistributeGroups(existing_groups, campaign_users, group_idx + 1, group_end_idx, next)

\* the loop over the campaigns; unreadable is the set of campaign positions
\* whose get_existing_campaign_groups call fails.  The result carries the
\* distributions and, as history, the slice cut for every campaign
RECURSIVE DistributeCampaigns(_, _, _, _, _)
DistributeCampaigns(iins, cs, unreadable, i, start_idx) ==
    IF i >= Len(cs) THEN [distributions |-> <<>>, allocation |-> <<>>, raised |-> FALSE]
    ELSE LET end_idx == start_idx + users_for_campaign(i, Len(iins), Len(cs))
             campaign_users == Slice(iins, start_idx, end_idx)
             campaign == cs[i + 1]
             base_campaign_id == SplitFirst(campaign.theory_id)
             existing_groups == IF i \in unreadable THEN <<>>
                                ELSE get_existing_campaign_groups(base_campaign_id)
             skipped == Len(campaign_users) > 0 /\ Len(existing_groups) = 0
             planned == Len(campaign_users) > 0 /\ Len(existing_groups) > 0
             raised == planned /\ \E k \in 1..Len(existing_groups) : BadSuffix(existing_groups[k].key)
             entry == [campaign |-> campaign,
                       base_campaign_id |-> base_campaign_id,
                       total_users |-> Len(campaign_users),
                       existing_groups_count |-> Len(existing_groups),
                       groups |-> IF raised THEN <<>>
                                  ELSE DistributeGroups(existing_groups, campaign_users, 0, 0, <<>>)]
             slice == [campaign_users |-> campaign_users,
                       skipped |-> skipped,
                       existing_groups |-> IF planned
                                           THEN [k \in 1..Len(existing_groups) |-> existing_groups[k].key]
                                           ELSE <<>>]
             rest == DistributeCampaigns(iins, cs, unreadable, i + 1, end_idx)
         IN [distributions |-> (IF planned THEN <<entry>> ELSE <<>>) \o rest.distributions,
             allocation |-> <<slice>> \o rest.allocation,
             raised |-> raised \/ rest.raised]

\* the sum taken over the wrong field of the distributions
RECURSIVE SumGroupCounts(_)
SumGroupCounts(ds) == IF Len(ds) = 0 THEN 0 ELSE ds[1].existing_groups_count + SumGroupCounts(Tail(ds))

RECURSIVE SumTotalUsers(_)
SumTotalUsers(ds) == IF Len(ds) = 0 THEN 0 ELSE ds[1].total_users + SumTotalUsers(Tail(ds))

\* the distribution that reports failure when a campaign has no groups
distribute_users_to_campaigns_strict(iins, cs, unreadable) ==
    IF Len(iins) = 0 \/ Len(cs) = 0
    THEN [result |-> NoDistribution, allocation |-> <<>>]
    ELSE LET d == DistributeCampaigns(iins, cs, unreadable, 0, 0)
         IN IF d.raised \/ \E k \in 1..Len(d.allocation) : d.allocation[k].skipped
            THEN [result |-> NoDistribution, allocation |-> <<>>]
            ELSE [result |-> [success |-> TRUE,
                              distributions |-> d.distributions,
                              total_users_distributed |-> SumTotalUsers(d.distributions)],
                  allocation |-> d.allocation]

distribute_users_to_campaigns(iins, cs, unreadable) ==
    IF Len(iins) = 0 \/ Len(cs) = 0
    THEN [result |-> NoDistribution, allocation |-> <<>>]
    ELSE LET d == DistributeCampaigns(iins, cs, unreadable, 0, 0)
         IN IF d.raised
            THEN [result |-> NoDistribution, allocation |-> <<>>]
            ELSE [result |-> [success |-> TRUE,
                              distributions |-> d.distributions,
                              total_users_distributed |-> SumTotalUsers(d.distributions)],
                  allocation |-> d.allocation]

\* a first step that fetches an identifier before it looks at the campaigns
GetActiveCampaignsFetching ==
    /\ pc = "idle"
    /\ LET cs == get_active_campaigns_for_daily_process
       IN IF Len(cs) = 0
          THEN /\ process_result' = [NoResult EXCEPT !.process_stage = "getting_active_campaigns",
                                                     !.skip_reason = "no_active_campaigns",
                                                     !.success = TRUE]
               /\ pc' = "done"
               /\ iin_values' = <<1>>
               /\ UNCHANGED campaigns
          ELSE /\ process_result' = [NoResult EXCEPT !.process_stage = "getting_active_campaigns",
                                                     !.campaigns_found = Len(cs)]
               /\ pc' = "getting_spss_users"
               /\ campaigns' = cs
               /\ UNCHANGED iin_values
    /\ UNCHANGED <<storageVars, distribution_result, results, campaign_result,
                   ci, gi, allocation, writes, envVars>>
    /\ UNCHANGED <<schedVars, stratVars, balanceVars>>

\* ---------------------------------------------------- actions: the daily run
\* process_daily_user_distribution, step 1
GetActiveCampaigns ==
    /\ pc = "idle"
    /\ \/ /\ faults < MaxFaults
          /\ faults' = faults + 1
          /\ process_result' = [NoResult EXCEPT !.process_stage = "getting_active_campaigns",
                                                !.error_message = "Failed to get active campaigns"]
          /\ pc' = "done"
          /\ UNCHANGED campaigns
       \/ LET cs == get_active_campaigns_for_daily_process
          IN /\ UNCHANGED faults
             /\ IF Len(cs) = 0
                THEN /\ process_result' = [NoResult EXCEPT !.process_stage = "getting_active_campaigns",
                                                           !.skip_reason = "no_active_campaigns",
                                                           !.success = TRUE]
                     /\ pc' = "done"
                     /\ UNCHANGED campaigns
                ELSE /\ process_result' = [NoResult EXCEPT !.process_stage = "getting_active_campaigns",
                                                           !.campaigns_found = Len(cs)]
                     /\ pc' = "getting_spss_users"
                     /\ campaigns' = cs
    /\ UNCHANGED <<storageVars, iin_values, distribution_result, results, campaign_result,
                   ci, gi, allocation, writes, scan, create_faults>>
    /\ UNCHANGED <<schedVars, stratVars, balanceVars>>

\* the rows of SELECT IIN ... ORDER BY IIN when the table holds the
\* identifiers 1..n, the identifier dup (if any) twice, and a NULL row (0)
\* if blank
RECURSIVE CursorRows(_, _, _)
CursorRows(n, dup, blank) ==
    IF n = 0 THEN IF blank THEN <<0>> ELSE <<>>
    ELSE CursorRows(n - 1, dup, blank) \o (IF dup = n THEN <<n, n>> ELSE <<n>>)

\* "if iin and str(iin).strip()": the rows that carry an identifier
RECURSIVE NonBlank(_)
NonBlank(rows) ==
    IF Len(rows) = 0 THEN <<>>
    ELSE IF rows[1] = 0 THEN NonBlank(Tail(rows))
    ELSE <<rows[1]>> \o NonBlank(Tail(rows))

RECURSIVE SortNums(_)
SortNums(S) ==
    IF S = {} THEN <<>>
    ELSE LET m == CHOOSE x \in S : \A y \in S : x <= y
         IN <<m>> \o SortNums(S \ {m})

SetOrders == {"ascending", "descending"}

\* the identifiers kept with their repetitions: list(iin_values)
all_iin_values(rows, order) ==
    IF order = "ascending" THEN NonBlank(rows) ELSE Reverse(NonBlank(rows))

\* list(set(iin_values)): each identifier once, in the order the set yields
unique_iin_values(rows, order) ==
    LET sorted == SortNums(Range(NonBlank(rows)))
    IN IF order = "ascending" THEN sorted ELSE Reverse(sorted)

\* process_daily_user_distribution, step 2; the environment supplies the
\* rows of the newly-qualifying identifiers
GetSpssUsers ==
    /\ pc = "getting_spss_users"
    /\ \/ /\ faults < MaxFaults
          /\ faults' = faults + 1
          /\ process_result' = [process_result EXCEPT !.process_stage = "getting_spss_users",
                                                      !.error_message = "Failed to get SPSS users"]
          /\ pc' = "done"
          /\ UNCHANGED iin_values
       \/ \E n \in 0..MaxIIN, blank \in BOOLEAN, order \in SetOrders : \E dup \in 0..n :
             LET rows == CursorRows(n, dup, blank)
                 count == Cardinality(Range(NonBlank(rows)))
             IN /\ UNCHANGED faults
                /\ IF count = 0
                   THEN /\ process_result' = [process_result EXCEPT
                                                !.process_stage = "getting_spss_users",
                                                !.skip_reason = "no_count_day_5_users",
                                                !.success = TRUE]
                        /\ pc' = "done"
                        /\ UNCHANGED iin_values
                   ELSE /\ process_result' = [process_result EXCEPT
                                                !.process_stage = "getting_spss_users",
                                                !.users_found = count]
                        /\ pc' = "distributing_users"
                        /\ iin_values' = unique_iin_values(rows, order)
    /\ UNCHANGED <<storageVars, campaigns, distribution_result, results, campaign_result,
                   ci, gi, allocation, writes, scan, create_faults>>
    /\ UNCHANGED <<schedVars, stratVars, balanceVars>>

\* process_daily_user_distribution, step 3
Distribute ==
    /\ pc = "distributing_users"
    /\ \E unreadable \in SUBSET (0..(Len(campaigns) - 1)) :
         LET d == distribute_users_to_campaigns(iin_values, campaigns, unreadable)
         IN /\ faults + Cardinality(unreadable) <= MaxFaults
            /\ \A i \in unreadable :
                 users_for_campaign(i, Len(iin_values), Len(campaigns)) > 0
            /\ faults' = faults + Cardinality(unreadable)
            /\ IF d.result.success
               THEN /\ process_result' = [process_result EXCEPT !.process_stage = "inserting_users"]
                    /\ pc' = "inserting_users"
               ELSE /\ process_result' = [process_result EXCEPT !.process_stage = "distributing_users",
                                                                !.error_message = "Failed to distribute users"]
                    /\ pc' = "done"
            /\ distribution_result' = d.result
            /\ allocation' = d.allocation
    /\ UNCHANGED <<storageVars, campaigns, iin_values, results, campaign_result, ci, gi, writes, scan, create_faults>>
    /\ UNCHANGED <<schedVars, stratVars, balanceVars>>

NoDetail == [dssb_app |-> NoSink, spss |-> NoSink, overall_success |-> FALSE, total_inserted |-> 0]

NoTabs == [tab1 |-> None, tab2 |-> None, tab3 |-> None, tab4 |-> None, tab5 |-> None]

\* result of a control group; its entry carries no detailed_results (NoDetail)
ControlOutcome(w) ==
    [result |-> [success |-> w.result.success,
                 inserted_count |-> w.result.inserted_count,
                 message |-> w.result.message,
                 detailed_results |-> NoDetail],
     target_table |-> "SC_local_control",
     control_rows |-> w.rows, primary_rows |-> {}, secondary_rows |-> {},
     attempts |-> <<w.attempt>>]

\* insert_result of a target group
TargetOutcome(w) ==
    [result |-> w.result,
     target_table |-> "SC_local_target + SPSS",
     control_rows |-> {}, primary_rows |-> w.primary_rows,
     secondary_rows |-> w.secondary_rows,
     attempts |-> w.attempts]

\* the write that drops the tab values read from storage
WriteGroupBlankTabs(group_type, theory_id, group_users, existing_tab_values, env1, env2) ==
    IF group_type = "control"
    THEN ControlOutcome(insert_control_group(theory_id, group_users, NoTabs, env1))
    ELSE TargetOutcome(insert_target_groups(theory_id, group_users, NoTabs, env1, env2))

\* the write that sends every group, control included, to the target sinks
WriteGroupAlwaysTarget(group_type, theory_id, group_users, existing_tab_values, env1, env2) ==
    TargetOutcome(insert_target_groups(theory_id, group_users, existing_tab_values, env1, env2))

\* insert_daily_distributed_users: "if group_type == 'control': ... else: ..."
WriteGroup(group_type, theory_id, group_users, existing_tab_values, env1, env2) ==
    IF group_type = "control"
    THEN ControlOutcome(insert_control_group(theory_id, group_users, existing_tab_values, env1))
    ELSE TargetOutcome(insert_target_groups(theory_id, group_users, existing_tab_values, env1, env2))

\* the mirror was unreachable in an earlier write of the run
MirrorDown ==
    \E k \in 1..Len(writes) :
        writes[k].call.sink = "SC_theory_users" /\ writes[k].call.env.fault = "connect"

\* environment: an outage of the mirror that lasts counts as one failure
MirrorCost(env) == IF env.fault = "connect" /\ MirrorDown THEN 0 ELSE Cost(env)

\* insert_daily_distributed_users: the body of the loop over the groups of
\* one distribution, and the bookkeeping after its last group
InsertGroup ==
    /\ pc = "inserting_users"
    /\ ci <= Len(distribution_result.distributions)
    /\ LET distribution == distribution_result.distributions[ci]
           group_data == distribution.groups[gi].value
           letter == distribution.groups[gi].key
           group_users == group_data.users
           current == IF gi = 1
                      THEN [NoCampaignResult EXCEPT !.base_campaign_id = distribution.base_campaign_id]
                      ELSE campaign_result
       IN \E env1 \in Disturbances(group_users),
             env2 \in IF group_data.group_type = "control" THEN {Calm} ELSE Disturbances(group_users) :
            LET w == WriteGroup(group_data.group_type, group_data.theory_id, group_users,
                                group_data.tab_values, env1, env2)
                entry == [theory_id |-> group_data.theory_id,
                          target_table |-> w.target_table,
                          users_count |-> Len(group_users),
                          inserted_count |-> w.result.inserted_count,
                          success |-> w.result.success,
                          message |-> w.result.message,
                          detailed_results |-> w.result.detailed_results,
                          existing_tab_values |-> group_data.tab_values]
                updated == [current EXCEPT
                              !.group_results = DictPut(@, letter, entry),
                              !.total_inserted = IF w.result.success
                                                 THEN @ + w.result.inserted_count ELSE @,
                              !.success = IF w.result.success THEN @ ELSE FALSE]
            IN /\ faults + Cost(env1) + MirrorCost(env2) <= MaxFaults
               /\ faults' = faults + Cost(env1) + MirrorCost(env2)
               /\ SC_local_control' = SC_local_control \cup w.control_rows
               /\ SC_local_target' = SC_local_target \cup w.primary_rows
               /\ SC_theory_users' = SC_theory_users \cup w.secondary_rows
               /\ writes' = writes \o
                    [k \in 1..Len(w.attempts) |->
                       [call |-> w.attempts[k], campaign |-> ci, group |-> gi,
                        group_type |-> group_data.group_type]]
               /\ IF gi = Len(distribution.groups)
                  THEN /\ results' = [results EXCEPT
                                        !.campaign_results = Append(@, updated),
                                        !.total_inserted = @ + updated.total_inserted,
                                        !.success = IF updated.success THEN @ ELSE FALSE]
                       /\ campaign_result' = NoCampaignResult
                       /\ ci' = ci + 1
                       /\ gi' = 1
                  ELSE /\ campaign_result' = updated
                       /\ gi' = gi + 1
                       /\ UNCHANGED <<results, ci>>
    /\ UNCHANGED <<SoftCollection_theories, pc, process_result, campaigns, iin_values,
                   distribution_result, allocation, scan, create_faults>>
    /\ UNCHANGED <<schedVars, stratVars, balanceVars>>

\* the report that is marked completed whatever the writer returned
CompleteRunAlwaysCompleted ==
    /\ pc = "inserting_users"
    /\ ci > Len(distribution_result.distributions)
    /\ process_result' = [process_result EXCEPT !.users_distributed = results.total_inserted,
                                                !.success = TRUE,
                                                !.process_stage = "completed"]
    /\ pc' = "done"
    /\ UNCHANGED <<storageVars, campaigns, iin_values, distribution_result, results,
                   campaign_result, ci, gi, allocation, writes, envVars>>
    /\ UNCHANGED <<schedVars, stratVars, balanceVars>>

\* process_daily_user_distribution, after step 4
CompleteRun ==
    /\ pc = "inserting_users"
    /\ ci > Len(distribution_result.distributions)
    /\ process_result' =
         IF results.success
         THEN [process_result EXCEPT !.users_distributed = results.total_inserted,
                                     !.success = TRUE,
                                     !.process_stage = "completed"]
         ELSE [process_result EXCEPT !.users_distributed = results.total_inserted,
                                     !.error_message = "Insertion failed"]
    /\ pc' = "done"
    /\ UNCHANGED <<storageVars, campaigns, iin_values, distribution_result, results,
                   campaign_result, ci, gi, allocation, writes, envVars>>
    /\ UNCHANGED <<schedVars, stratVars, balanceVars>>

Next ==
    \/ CreateTheory
    \/ StratifyAndCreate
    \/ GetActiveCampaigns
    \/ GetSpssUsers
    \/ Distribute
    \/ InsertGroup
    \/ CompleteRun

Spec == Init /\ [][Next]_vars

\* ------------------------------------------------------ actions: the scheduler
dailyVars == <<storageVars, runVars, envVars>>

\* the stages process_daily_user_distribution goes through, in order
Stages == <<"getting_active_campaigns", "getting_spss_users", "distributing_users",
            "inserting_users">>

StageIndex(stage) == CHOOSE k \in 1..Len(Stages) : Stages[k] = stage

Executing == {t \in Threads : run_stage[t] # "idle"}

\* the event loop is free to run a coroutine or a due-job check only while
\* no request handler is inside a synchronous call
LoopFree == run_stage["event_loop"] = "idle"

\* DailyDistributionScheduler.start: add_job(..., max_instances=1) and start
SchedulerStart ==
    /\ ~is_running
    /\ is_running' = TRUE
    /\ UNCHANGED <<job_instances, run_stage, run_iins, sink_rows, cron_fires, requests, missed>>
    /\ UNCHANGED <<dailyVars, stratVars, balanceVars>>

\* the cron trigger is due: the scheduler, on the event loop, submits
\* run_daily_distribution to the executor unless max_instances is reached
CronFire ==
    /\ is_running
    /\ LoopFree
    /\ cron_fires < MaxCronFires
    /\ cron_fires' = cron_fires + 1
    /\ IF job_instances < max_instances /\ Cardinality(Executing \cap {"worker"}) < max_workers
       THEN /\ job_instances' = job_instances + 1
            /\ run_stage' = [run_stage EXCEPT !["worker"] = Stages[1]]
            /\ UNCHANGED missed
       ELSE /\ missed' = missed + 1
            /\ UNCHANGED <<job_instances, run_stage>>
    /\ UNCHANGED <<is_running, run_iins, sink_rows, requests>>
    /\ UNCHANGED <<dailyVars, stratVars, balanceVars>>

\* POST /scheduler/test-distribution -> test_daily_distribution ->
\* run_test_distribution, which calls process_daily_user_distribution()
\* directly on the thread of the event loop
TestDistribution ==
    /\ LoopFree
    /\ requests < MaxRequests
    /\ requests' = requests + 1
    /\ \E admin \in BOOLEAN :
         IF admin
         THEN run_stage' = [run_stage EXCEPT !["event_loop"] = Stages[1]]
         ELSE UNCHANGED run_stage
    /\ UNCHANGED <<is_running, job_instances, run_iins, sink_rows, cron_fires, missed>>
    /\ UNCHANGED <<dailyVars, stratVars, balanceVars>>

\* one stage of process_daily_user_distribution on thread t: the candidate
\* query reads the identifiers, the writer inserts a row for each of them,
\* and the return of the run frees the thread
ProcessStep(t) ==
    /\ run_stage[t] # "idle"
    /\ LET k == StageIndex(run_stage[t])
       IN /\ run_stage' = [run_stage EXCEPT ![t] = IF k < Len(Stages) THEN Stages[k + 1] ELSE "idle"]
          /\ run_iins' = [run_iins EXCEPT ![t] = IF run_stage[t] = "getting_spss_users" THEN Candidates
                                                 ELSE IF k = Len(Stages) THEN {}
                                                 ELSE @]
          /\ sink_rows' = IF run_stage[t] = "inserting_users"
                          THEN [i \in Candidates |-> IF i \in run_iins[t] THEN sink_rows[i] + 1
                                                     ELSE sink_rows[i]]
                          ELSE sink_rows
          /\ job_instances' = IF t = "worker" /\ k = Len(Stages) THEN job_instances - 1
                              ELSE job_instances
    /\ UNCHANGED <<is_running, cron_fires, requests, missed>>
    /\ UNCHANGED <<dailyVars, stratVars, balanceVars>>

NextScheduler ==
    \/ SchedulerStart
    \/ CronFire
    \/ TestDistribution
    \/ \E t \in Threads : ProcessStep(t)

SpecScheduler == Init /\ [][NextScheduler]_vars

\* ------------------------------------------------- stratification: the data
\* A row of the DataFrame is <<s, j>>: the j-th record of stratum s, where a
\* stratum is one value of the joined stratify columns (y).  Row counts and
\* the row thresholds of the request are scaled down together.

\* pd.DataFrame(data=request.data): data gives the number of rows per stratum
DataFrame(data) == {r \in (1..Len(data)) \X (1..MaxStratumSize) : r[2] <= data[r[1]]}

\* y.unique()
Strata(d) == {r[1] : r \in d}

\* df[y == stratum]
StratumOf(d, s) == {r \in d : r[1] = s}

\* df[y == stratum].index, in index order
StratumIndices(d, s) == SortNums({r[2] : r \in StratumOf(d, s)})

RECURSIVE SortRows(_)
\* the rows of a frame in index order
SortRows(S) ==
    IF S = {} THEN <<>>
    ELSE LET m == CHOOSE m \in S : \A x \in S : m[1] < x[1] \/ (m[1] = x[1] /\ m[2] <= x[2])
         IN <<m>> \o SortRows(S \ {m})

RECURSIVE SumFn(_, _)
SumFn(f, S) == IF S = {} THEN 0
               ELSE LET x == CHOOSE x \in S : TRUE IN f[x] + SumFn(f, S \ {x})

RECURSIVE SumFrom(_, _)
\* sum(split_sizes[i:])
SumFrom(ns, i) == IF i > Len(ns) THEN 0 ELSE ns[i] + SumFrom(ns, i + 1)

\* the permutation np.random.RandomState(seed) applies to a list: one
\* permutation per seed, here the rotation by seed
Shuffle(xs, seed) == IF Len(xs) = 0 THEN xs
                     ELSE [i \in 1..Len(xs) |-> xs[((i - 1 + seed) % Len(xs)) + 1]]

Position(xs, x) == CHOOSE p \in 1..Len(xs) : xs[p] = x

\* np.random.RandomState(seed).choice(stratum_indices, size=size, replace=False)
choice(d, s, size, seed) == {<<s, Shuffle(StratumIndices(d, s), seed)[i]>> : i \in 1..size}

\* a fold assignment that deals the rows to one fold more than are returned
TestFoldExtra(d, n_splits, seed, r) ==
    (Cardinality({x \in d : x[1] < r[1]})
       + Position(Shuffle(StratumIndices(d, r[1]), seed), r[2]) - 1) % (n_splits + 1)

\* StratifiedKFold(n_splits, shuffle=True, random_state=seed).split: the rows,
\* sorted by class, are dealt to the folds in turn, and within a class the
\* seed decides which row gets which of the class's fold labels
TestFold(d, n_splits, seed, r) ==
    (Cardinality({x \in d : x[1] < r[1]})
       + Position(Shuffle(StratumIndices(d, r[1]), seed), r[2]) - 1) % n_splits

StratifiedKFold(d, n_splits, seed) ==
    [f \in 1..n_splits |-> {r \in d : TestFold(d, n_splits, seed, r) = f - 1}]

\* StratifiedShuffleSplit: n_test = ceil(test_size * n), n_train = n - n_test
TestRows(n, num, den) == (n * num + den - 1) \div den

\* the remainder that ranks stratum s when the train rows are allotted
TrainRemainder(d, s, n_train) == (Cardinality(StratumOf(d, s)) * n_train) % Cardinality(d)

\* the strata that get one of the rows left after flooring before s does
TrainRank(d, s, n_train) ==
    Cardinality({t \in Strata(d) :
        \/ TrainRemainder(d, t, n_train) > TrainRemainder(d, s, n_train)
        \/ TrainRemainder(d, t, n_train) = TrainRemainder(d, s, n_train) /\ t < s})

\* rows of stratum s in the train part: its proportional share, floored,
\* plus one of the rows left over for the largest remainders
TrainCount(d, s, n_train) ==
    (Cardinality(StratumOf(d, s)) * n_train) \div Cardinality(d)
      + (IF TrainRank(d, s, n_train)
              < SumFn([t \in Strata(d) |-> TrainRemainder(d, t, n_train)], Strata(d)) \div Cardinality(d)
         THEN 1 ELSE 0)

SplitAt(d, n_train, seed) ==
    LET train == UNION {choice(d, s, TrainCount(d, s, n_train), seed) : s \in Strata(d)}
    IN [raised |-> FALSE, train |-> train, test |-> d \ train]

\* StratifiedShuffleSplit(n_splits=1, test_size=num/den, random_state=seed):
\* raises when a class has one member or a part is smaller than the classes
StratifiedShuffleSplit(d, num, den, seed) ==
    IF \/ \E s \in Strata(d) : Cardinality(StratumOf(d, s)) < 2
       \/ TestRows(Cardinality(d), num, den) < Cardinality(Strata(d))
       \/ Cardinality(d) - TestRows(Cardinality(d), num, den) < Cardinality(Strata(d))
    THEN [raised |-> TRUE, train |-> {}, test |-> {}]
    ELSE SplitAt(d, Cardinality(d) - TestRows(Cardinality(d), num, den), seed)

NoSplits == [raised |-> TRUE, splits |-> <<>>]

PrependSplit(g, rest) == [raised |-> rest.raised, splits |-> <<g>> \o rest.splits]

RECURSIVE CustomSplits(_, _, _, _)
\* perform_stratification, custom split sizes: every split but the last is
\* the test part of a shuffle split of what remains, the last is what remains
CustomSplits(remaining_df, split_sizes, i, seed) ==
    IF i = Len(split_sizes) THEN [raised |-> FALSE, splits |-> <<remaining_df>>]
    ELSE LET sss == StratifiedShuffleSplit(remaining_df, split_sizes[i],
                                           SumFrom(split_sizes, i), seed + i - 1)
         IN IF sss.raised THEN NoSplits
            ELSE PrependSplit(sss.test, CustomSplits(sss.train, split_sizes, i + 1, seed))

perform_stratification(d, req) ==
    IF req.split_sizes # <<>>
    THEN CustomSplits(d, req.split_sizes, 1, req.random_state)
    ELSE [raised |-> FALSE, splits |-> StratifiedKFold(d, req.n_splits, req.random_state)]

\* create_stratified_sample: per stratum up to max(10, ceil(sample_size /
\* unique_strata)) rows, topped up from the rest when the sample is short
SamplePerStratum(d, sample_size, seed) ==
    UNION {choice(d, s, Min(Cardinality(StratumOf(d, s)),
                            SetMax({MinSamplesPerStratum,
                                    (sample_size + Cardinality(Strata(d)) - 1)
                                        \div Cardinality(Strata(d))})), seed)
           : s \in Strata(d)}

\* the additional rows, drawn from the rows not yet in the sample
TopUp(d, sample, n_additional, seed) ==
    LET remaining_indices == SortRows(d \ sample)
    IN {Shuffle(remaining_indices, seed)[i] : i \in 1..n_additional}

create_stratified_sample(d, sample_size, seed) ==
    IF Cardinality(d) <= sample_size THEN d
    ELSE LET sample == SamplePerStratum(d, sample_size, seed)
         IN IF Cardinality(sample) < sample_size
            THEN sample \cup TopUp(d, sample, Min(sample_size - Cardinality(sample),
                                                  Cardinality(d \ sample)), seed + 1)
            ELSE sample

\* stratum_proportions[stratum][i] = count / len(split), applied to the
\* stratum of the full frame: int(len(stratum_indices) * target_proportion)
DrawCount(d, split, s) ==
    IF split = {} THEN 0
    ELSE (Cardinality(StratumOf(d, s)) * Cardinality(StratumOf(split, s))) \div Cardinality(split)

\* the rows drawn for split i (counted from 0) of the full frame
FullSplit(d, split, i, seed) ==
    UNION {choice(d, s, Min(DrawCount(d, split, s), Cardinality(StratumOf(d, s))), seed + i)
           : s \in Strata(d)}

NonEmpty(g) == g # {}

\* full_splits: a split without rows is not appended
FullSplits(d, sample_splits, seed) ==
    SelectSeq([i \in 1..Len(sample_splits) |-> FullSplit(d, sample_splits[i], i - 1, seed)],
              NonEmpty)

Extrapolate(d, sample_result, seed) ==
    IF sample_result.raised THEN NoSplits
    ELSE [raised |-> FALSE, splits |-> FullSplits(d, sample_result.splits, seed)]

\* the condition of memory_efficient_stratification for the sampled path
Sampled(d, req) == req.use_sampling /\ Cardinality(d) > req.max_memory_rows

memory_efficient_stratification(d, req) ==
    IF Sampled(d, req)
    THEN Extrapolate(d, perform_stratification(
                            create_stratified_sample(d, req.sample_size, req.random_state), req),
                     req.random_state)
    ELSE perform_stratification(d, req)

\* ------------------------------------------- stratification: the statistics
\* p-values are compared only by order: level 0 is the p-value 0.0
PValues == 0..MaxP

Columns == <<"c1", "c2">>

\* the test_scores calculate_statistical_test can produce for the splits:
\* per split, a p-value for every monitored column
TestScores(n, cols) == [1..n -> [Range(cols) -> PValues]]

SetMin(S) == CHOOSE m \in S : \A x \in S : m <= x

check_p_value_criteria(ks_scores, ks_test_columns, min_p_value) ==
    \A g \in 1..Len(ks_scores) : \A col \in Range(ks_test_columns) :
        ~(ks_scores[g][col] < min_p_value)

get_min_p_values(ks_scores, ks_test_columns) ==
    [col \in Range(ks_test_columns) |->
        IF Len(ks_scores) = 0 THEN Nothing
        ELSE Some(SetMin({ks_scores[g][col] : g \in 1..Len(ks_scores)}))]

\* [p for p in min_p_values.values() if p is not None]
NotNone(min_p_values) ==
    {min_p_values[col][1] : col \in {c \in DOMAIN min_p_values : min_p_values[c] # Nothing}}

\* a dict is true when it is not None and not empty
Truthy(dict) == dict # Nothing /\ DOMAIN dict[1] # {}

\* ------------------------------------------------ stratification: requests
\* split sizes in hundredths
SplitSizes == {w \in {<<50, 50>>, <<70, 30>>, <<50, 30, 20>>} : Len(w) <= MaxSplits}

\* what request_data gives for n_splits and split_sizes
Given(n_splits, split_sizes) == [n_splits |-> n_splits, split_sizes |-> split_sizes]

Shapes == {Given(Some(k), Nothing) : k \in 2..MaxSplits}
            \cup {Given(Nothing, Some(w)) : w \in SplitSizes}

\* shapes the request must not have: neither or both of n_splits and
\* split_sizes, n_splits out of range, one or eleven split sizes, a split
\* size of 0 or of 1, split sizes that do not sum to 1
BadShapes ==
    {Given(Nothing, Nothing), Given(Some(2), Some(<<50, 50>>)),
     Given(Some(1), Nothing), Given(Some(11), Nothing),
     Given(Nothing, Some(<<100>>)),
     Given(Nothing, Some(<<10, 9, 9, 9, 9, 9, 9, 9, 9, 9, 9>>)),
     Given(Nothing, Some(<<0, 100>>)), Given(Nothing, Some(<<50, 30>>))}

\* self.n_splits after __init__: len(split_sizes) when split sizes are given
InitSplits(given) ==
    IF given.split_sizes # Nothing THEN Len(given.split_sizes[1])
    ELSE IF given.n_splits # Nothing THEN given.n_splits[1]
    ELSE 0

\* test_size in tenths; 0 stands for no test split
TestSizes == {0, 3}

RowLimits == {MaxStratumSize, MaxStrata * MaxStratumSize}

Populations == UNION {[1..n -> 1..MaxStratumSize] : n \in 2..MaxStrata}

MakeRequest(data, shape, test_size, seed, cols, min_p, max_iterations, limit, sample_size, sampling) ==
    [data |-> data, given |-> shape, n_splits |-> InitSplits(shape),
     split_sizes |-> IF shape.split_sizes = Nothing THEN <<>> ELSE shape.split_sizes[1],
     test_size |-> test_size, random_state |-> seed, ks_test_columns |-> cols,
     min_p_value |-> min_p, max_iterations |-> max_iterations, max_memory_rows |-> limit,
     sample_size |-> sample_size, use_sampling |-> sampling]

\* requests without a p-value threshold, over every population and shape
PlainRequests ==
    {MakeRequest(data, shape, test_size, seed, Nothing, Nothing, DefaultMaxIterations,
                 limit, sample_size, sampling) :
        data \in Populations, shape \in Shapes, test_size \in TestSizes, seed \in 0..MaxSeed,
        limit \in RowLimits, sample_size \in RowLimits, sampling \in BOOLEAN}

MonitoredColumns == {Nothing} \cup {Some(SubSeq(Columns, 1, n)) : n \in 0..MaxColumns}

Thresholds == {Nothing} \cup {Some(p) : p \in PValues}

\* two equal groups, or custom split sizes
MonitoredShapes == {shape \in Shapes : InitSplits(shape) = 2 \/ shape.split_sizes # Nothing}

\* requests with monitored columns or a threshold, over one population
MonitoredRequests ==
    {MakeRequest(<<MaxStratumSize, MaxStratumSize - 1>>, shape, 0, seed, cols, min_p,
                 max_iterations, limit, MaxStrata * MaxStratumSize, TRUE) :
        shape \in MonitoredShapes, seed \in 0..MaxSeed, cols \in MonitoredColumns,
        min_p \in Thresholds, max_iterations \in 1..MaxIterations, limit \in RowLimits}

\* requests of a shape that is not allowed, over one population
MalformedRequests ==
    {MakeRequest(<<MaxStratumSize, MaxStratumSize - 1>>, shape, test_size, seed, Nothing, Nothing,
                 DefaultMaxIterations, limit, MaxStrata * MaxStratumSize, TRUE) :
        shape \in BadShapes, test_size \in TestSizes, seed \in 0..MaxSeed, limit \in RowLimits}

Requests == PlainRequests \cup MonitoredRequests \cup MalformedRequests

\* ------------------------------------------ stratification: stratify_data
\* the checks of __init__ on split_sizes: at least 2 sizes, each in (0, 1),
\* summing to 1.0
BadSizes(split_sizes) ==
    \/ Len(split_sizes) < 2
    \/ \E i \in 1..Len(split_sizes) : ~(0 < split_sizes[i] /\ split_sizes[i] < Whole)
    \/ SumFrom(split_sizes, 1) # Whole

\* a validation that lets every list of split sizes pass
InvalidLenient(req) ==
    \/ req.given.n_splits # Nothing
          /\ ~(MinSplits <= req.given.n_splits[1] /\ req.given.n_splits[1] <= MaxSplitsAllowed)
    \/ req.given.n_splits = Nothing /\ req.given.split_sizes = Nothing
    \/ req.given.n_splits # Nothing /\ req.given.split_sizes # Nothing
    \/ req.min_p_value # Nothing /\ req.ks_test_columns = Nothing

\* StratificationRequest(**request_data) raises: the range of the field
\* n_splits, and the checks of __init__
Invalid(req) ==
    \/ req.given.n_splits # Nothing
          /\ ~(MinSplits <= req.given.n_splits[1] /\ req.given.n_splits[1] <= MaxSplitsAllowed)
    \/ req.given.n_splits = Nothing /\ req.given.split_sizes = Nothing
    \/ req.given.n_splits # Nothing /\ req.given.split_sizes # Nothing
    \/ req.given.split_sizes # Nothing /\ BadSizes(req.given.split_sizes[1])
    \/ req.min_p_value # Nothing /\ req.ks_test_columns = Nothing

\* the check of stratify_data on n_splits as __init__ has set it
OutOfRange(req) == ~(MinSplits <= req.n_splits /\ req.n_splits <= MaxSplitsAllowed)

\* a min_samples that does not count the row needed for the test split
min_samples_plain(req) == req.n_splits

\* min_samples: n_splits, plus one when a test split is requested
min_samples(req) == req.n_splits + (IF req.test_size > 0 THEN 1 ELSE 0)

\* the frame without the strata that have fewer than min_samples rows
Sufficient(req) ==
    {r \in DataFrame(req.data) : req.data[r[1]] >= min_samples(req)}

Prepared(raised, d, t) == [raised |-> raised, df |-> d, test_df |-> t]

HoldOut(sss) == Prepared(sss.raised, sss.train, Some(sss.test))

\* stratify_data up to the split: validation, insufficient strata, test split
Prepare(req) ==
    IF Invalid(req) \/ OutOfRange(req) \/ Cardinality(Strata(Sufficient(req))) < 2
    THEN Prepared(TRUE, {}, Nothing)
    ELSE IF req.test_size > 0
    THEN HoldOut(StratifiedShuffleSplit(Sufficient(req), req.test_size, 10, req.random_state))
    ELSE Prepared(FALSE, Sufficient(req), Nothing)

\* the exception stratify_data raises before the split, if any
PrepareError(req) ==
    IF Invalid(req) THEN "Invalid stratification request"
    ELSE IF OutOfRange(req) THEN "Number of split_sizes must be between 2 and 10."
    ELSE IF Cardinality(Strata(Sufficient(req))) < 2
    THEN "Not enough unique strata after removing insufficient ones."
    ELSE IF Prepare(req).raised THEN "ValueError"
    ELSE None

\* len(df) > 1500000 turns sampling on whatever the request says
ForceSampling(req) ==
    [req EXCEPT !.use_sampling = IF Cardinality(DataFrame(req.data)) > VeryLargeRows
                                 THEN TRUE ELSE @]

Iterative == request.min_p_value # Nothing /\ request.ks_test_columns # Nothing

\* stratified_groups of the response
Groups(splits, test_scores) ==
    [i \in 1..Len(splits) |->
        [stratum |-> i, data |-> splits[i], num_rows |-> Cardinality(splits[i]),
         test_statistics |-> IF test_scores = Nothing THEN Nothing ELSE Some(test_scores[1][i])]]

Response(splits, test_scores, iteration_info) ==
    [n_splits |-> request.n_splits,
     stratified_groups |-> Groups(splits, test_scores),
     total_rows |-> Cardinality(df),
     memory_info |-> [original_rows |-> Cardinality(DataFrame(request.data)),
                      processed_rows |-> Cardinality(df),
                      memory_efficient_processing |->
                          request.use_sampling
                            /\ Cardinality(DataFrame(request.data)) > request.max_memory_rows],
     iteration_info |-> iteration_info]

StratUnchanged == UNCHANGED <<dailyVars, schedVars, balanceVars>>

\* stratify_data is called: the request is validated and the frame prepared
StratifyRequest ==
    /\ st_pc = "idle"
    /\ \E req \in Requests :
         /\ request' = ForceSampling(req)
         /\ st_pc' = IF Prepare(req).raised THEN "raised" ELSE "splitting"
         /\ df' = Prepare(req).df
         /\ test_df' = Prepare(req).test_df
         /\ st_error' = PrepareError(req)
    /\ UNCHANGED <<iteration, criteria_met, best_splits, best_ks_scores, best_min_p_values,
                   attempts, response>>
    /\ StratUnchanged

Returned(result) ==
    IF result.raised
    THEN /\ st_pc' = "raised"
         /\ UNCHANGED response
    ELSE /\ st_pc' = "returned"
         /\ response' = Response(result.splits, Nothing, Nothing)

\* the single stratification without p-value criteria, and the response
StratifyOnce ==
    /\ st_pc = "splitting"
    /\ ~Iterative
    /\ Returned(memory_efficient_stratification(df, request))
    /\ st_error' = IF st_pc' = "raised" THEN "ValueError" ELSE st_error
    /\ UNCHANGED <<request, df, test_df, iteration, criteria_met, best_splits, best_ks_scores,
                   best_min_p_values, attempts>>
    /\ StratUnchanged

\* a seed that advances by one per iteration
iteration_seed_unit == request.random_state + iteration

iteration_seed == request.random_state + iteration * SeedStride

\* min(...) of lines 492-493: the smallest p-value that is not None
current_min(min_p_values) == SetMin(NotNone(min_p_values))

\* a best minimum that no later attempt exceeds once an attempt is recorded
best_min_kept == IF Truthy(best_min_p_values) THEN MaxP ELSE 0

best_min == IF Truthy(best_min_p_values) THEN SetMin(NotNone(best_min_p_values[1])) ELSE 0

\* the condition under which the attempt is compared with the best so far
Compared(min_p_values) ==
    best_splits = Nothing \/ (Truthy(best_min_p_values) /\ DOMAIN min_p_values # {})

Attempted(splits, min_p_values) ==
    [seed |-> iteration_seed, splits |-> splits, min_p_values |-> min_p_values]

\* the body of the loop after the split: criteria, minima, best so far
Track(splits, test_scores, min_p_values) ==
    IF Compared(min_p_values) /\ NotNone(min_p_values) = {}
    THEN /\ st_pc' = "raised"
         /\ UNCHANGED <<iteration, criteria_met, best_splits, best_ks_scores,
                        best_min_p_values, attempts>>
    ELSE /\ criteria_met' = check_p_value_criteria(test_scores, request.ks_test_columns[1],
                                                   request.min_p_value[1])
         /\ IF Compared(min_p_values) /\ current_min(min_p_values) > best_min
            THEN /\ best_splits' = Some(splits)
                 /\ best_ks_scores' = Some(test_scores)
                 /\ best_min_p_values' = Some(min_p_values)
            ELSE UNCHANGED <<best_splits, best_ks_scores, best_min_p_values>>
         /\ iteration' = iteration + 1
         /\ attempts' = Append(attempts, Attempted(splits, min_p_values))
         /\ UNCHANGED st_pc

Scored(result) ==
    IF result.raised
    THEN /\ st_pc' = "raised"
         /\ UNCHANGED <<iteration, criteria_met, best_splits, best_ks_scores,
                        best_min_p_values, attempts>>
    ELSE \E test_scores \in TestScores(Len(result.splits), request.ks_test_columns[1]) :
            Track(result.splits, test_scores,
                  get_min_p_values(test_scores, request.ks_test_columns[1]))

\* one iteration of the loop that looks for a split meeting the criteria
Attempt ==
    /\ st_pc = "splitting"
    /\ Iterative
    /\ iteration < request.max_iterations /\ ~criteria_met
    /\ Scored(memory_efficient_stratification(df, [request EXCEPT !.random_state = iteration_seed]))
    /\ st_error' = IF st_pc' = "raised" THEN "ValueError" ELSE st_error
    /\ UNCHANGED <<request, df, test_df, response>>
    /\ StratUnchanged

iteration_info ==
    [iterations_performed |-> iteration, criteria_met |-> criteria_met,
     target_p_value |-> request.min_p_value, achieved_min_p_values |-> best_min_p_values,
     max_iterations |-> request.max_iterations]

\* the loop is over: the best result found becomes the response; iterating
\* over best_splits raises when it is still None
ReturnBest ==
    /\ st_pc = "splitting"
    /\ Iterative
    /\ ~(iteration < request.max_iterations /\ ~criteria_met)
    /\ IF best_splits = Nothing
       THEN /\ st_pc' = "raised"
            /\ UNCHANGED response
       ELSE /\ st_pc' = "returned"
            /\ response' = Response(best_splits[1], best_ks_scores, Some(iteration_info))
    /\ st_error' = IF st_pc' = "raised" THEN "TypeError" ELSE st_error
    /\ UNCHANGED <<request, df, test_df, iteration, criteria_met, best_splits, best_ks_scores,
                   best_min_p_values, attempts>>
    /\ StratUnchanged

NextStratify ==
    \/ StratifyRequest
    \/ StratifyOnce
    \/ Attempt
    \/ ReturnBest

SpecStratify == Init /\ [][NextStratify]_vars

\* ------------------------------------------------ actions: balance tests
\* p-values in tenths
TestP == {0, 2, BalancedP}

\* what the test of a column meets: a p-value is computed, the contingency
\* table has no variation, or the computation raises
TestEvents == {"value", "degenerate", "fails"}

\* a monitored column: its dtype, and what the environment makes of its test
TestColumns ==
    {c \in [numeric : BOOLEAN, event : TestEvents, p : TestP] :
        /\ c.numeric => c.event # "degenerate"
        /\ c.event # "value" => c.p = 0}

ColumnLists == UNION {[1..n -> TestColumns] : n \in 1..MaxTestColumns}

\* the loop runs in perform_stratification, or in
\* memory_efficient_stratification on a split of at most or of more than
\* 50000 rows
TestPaths == {"regular", "sampled", "sampled_large"}

TestOutcome(raised, p_value, test_type) ==
    [raised |-> raised, p_value |-> p_value, test_type |-> test_type]

calculate_statistical_test(c) ==
    IF c.numeric
    THEN IF c.event = "fails" THEN TestOutcome(TRUE, 0, "none")
         ELSE TestOutcome(FALSE, c.p, "ks_test")
    ELSE IF c.event = "fails" THEN TestOutcome(FALSE, 0, "chi2_test_failed")
         ELSE IF c.event = "degenerate" THEN TestOutcome(FALSE, BalancedP, "chi2_test")
         ELSE TestOutcome(FALSE, c.p, "chi2_test")

TestEntry(p_value, test_type) == [p_value |-> p_value, test_type |-> test_type]

BalanceUnchanged == UNCHANGED <<dailyVars, schedVars, stratVars>>

\* the statistics of a split are about to be computed
BalanceStart ==
    /\ bt_pc = "idle"
    /\ \E path \in TestPaths, cols \in ColumnLists :
         /\ bt_path' = path
         /\ test_columns' = cols
    /\ test_dict' = <<>>
    /\ bt_pc' = "testing"
    /\ BalanceUnchanged

\* the entry of one column: in perform_stratification the call stands
\* alone, in memory_efficient_stratification an except clause writes an entry
Entered(outcome) ==
    IF ~outcome.raised
    THEN /\ test_dict' = Append(test_dict, TestEntry(outcome.p_value, outcome.test_type))
         /\ UNCHANGED bt_pc
    ELSE IF bt_path = "regular"
    THEN /\ bt_pc' = "raised"
         /\ UNCHANGED test_dict
    ELSE /\ test_dict' = Append(test_dict, TestEntry(ErrorP, "error"))
         /\ UNCHANGED bt_pc

\* for col in test_columns: one iteration
BalanceColumn ==
    /\ bt_pc = "testing"
    /\ Len(test_dict) < Len(test_columns)
    /\ Entered(calculate_statistical_test(test_columns[Len(test_dict) + 1]))
    /\ UNCHANGED <<bt_path, test_columns>>
    /\ BalanceUnchanged

\* test_scores.append(test_dict)
BalanceDone ==
    /\ bt_pc = "testing"
    /\ Len(test_dict) = Len(test_columns)
    /\ bt_pc' = "done"
    /\ UNCHANGED <<bt_path, test_columns, test_dict>>
    /\ BalanceUnchanged

NextBalance ==
    \/ BalanceStart
    \/ BalanceColumn
    \/ BalanceDone

SpecBalance == Init /\ [][NextBalance]_vars

\* ------------------------------------------------------------------ claims
RECURSIVE SumSeq(_)
SumSeq(ns) == IF Len(ns) = 0 THEN 0 ELSE ns[1] + SumSeq(Tail(ns))

\* the allocation of the campaign at position k (1-based) has a plan entry
Planned(k) == Len(allocation[k].existing_groups) > 0

\* the plan entry of the planned campaign at position k
PlanOf(k) == distribution_result.distributions[Cardinality({j \in 1..k : Planned(j)})]

\* the identifiers the plan entry d places in the group theory_id
Received(d, theory_id) ==
    SumSeq([g \in 1..Len(d.groups) |->
              IF d.groups[g].value.theory_id = theory_id THEN Len(d.groups[g].value.users) ELSE 0])

PlacedIn(d) == SumSeq([g \in 1..Len(d.groups) |-> Len(d.groups[g].value.users)])

AllocatedCounts == [k \in 1..Len(allocation) |-> Len(allocation[k].campaign_users)]

\* C1: a successful distribution of N identifiers over M campaigns gives the
\* campaign at position i (0-based) N \div M identifiers, plus one iff
\* i >= M - (N % M); the counts sum to N and differ pairwise by at most 1.
C1_CampaignCounts ==
    distribution_result.success =>
        LET N == Len(iin_values)
            M == Len(campaigns)
        IN /\ Len(allocation) = M
           /\ \A i \in 0..(M - 1) :
                AllocatedCounts[i + 1] = (N \div M) + (IF i >= M - (N % M) THEN 1 ELSE 0)
           /\ SumSeq(AllocatedCounts) = N
           /\ \A a, b \in 1..M : AllocatedCounts[a] - AllocatedCounts[b] <= 1

C1_Witness ==
    /\ distribution_result.success
    /\ Len(campaigns) = 3
    /\ AllocatedCounts = <<1, 1, 2>>

\* C2: for a campaign allocated n identifiers with G >= 1 existing groups, the
\* group read at position j (0-based) receives n \div G identifiers, plus one
\* iff j >= G - (n % G), and the plan places exactly n identifiers in the
\* campaign's groups.
C2_GroupCounts ==
    distribution_result.success =>
        \A k \in 1..Len(allocation) :
            Planned(k) =>
                LET n == Len(allocation[k].campaign_users)
                    read == allocation[k].existing_groups
                    G == Len(read)
                IN /\ \A j \in 0..(G - 1) :
                        Received(PlanOf(k), read[j + 1])
                            = (n \div G) + (IF j >= G - (n % G) THEN 1 ELSE 0)
                   /\ PlacedIn(PlanOf(k)) = n

C2_Witness ==
    /\ distribution_result.success
    /\ \E k \in 1..Len(allocation) :
         /\ Planned(k)
         /\ Len(allocation[k].campaign_users) = 3
         /\ Len(allocation[k].existing_groups) = 2
         /\ Received(PlanOf(k), allocation[k].existing_groups[1]) = 1
         /\ Received(PlanOf(k), allocation[k].existing_groups[2]) = 2

\* every (distribution, group) position of the plan
PlanGroups ==
    {<<d, g>> \in (1..Len(distribution_result.distributions)) \X (1..9) :
        g <= Len(distribution_result.distributions[d].groups)}

UsersAt(p) == distribution_result.distributions[p[1]].groups[p[2]].value.users

NoRepeat(s) == \A a, b \in 1..Len(s) : a # b => s[a] # s[b]

\* C3: in the plan of one run no identifier is assigned to more than one
\* group, of the same campaign or of different campaigns.
C3_NoOverlap ==
    /\ \A p \in PlanGroups : NoRepeat(UsersAt(p))
    /\ \A p, q \in PlanGroups : p # q => Range(UsersAt(p)) \cap Range(UsersAt(q)) = {}

C3_Witness ==
    /\ distribution_result.success
    /\ \E p, q \in PlanGroups : p[1] = q[1] /\ p[2] # q[2]
    /\ \E p, q \in PlanGroups : p[1] # q[1]
    /\ \E p \in PlanGroups : Len(UsersAt(p)) >= 2

AssignedIins == UNION {Range(UsersAt(p)) : p \in PlanGroups}

\* C4 as stated: a successful distribution of N identifiers assigns every
\* identifier of the batch to a group, and reports N distributed identifiers.
C4_Exhaustive ==
    distribution_result.success =>
        /\ AssignedIins = Range(iin_values)
        /\ distribution_result.total_users_distributed = Len(iin_values)

RECURSIVE Concat(_)
Concat(ss) == IF Len(ss) = 0 THEN <<>> ELSE ss[1] \o Concat(Tail(ss))

\* C4 amended: the slices cut for the campaigns make up the whole batch; every
\* identifier of a slice whose campaign has existing groups is assigned to a
\* group of that campaign, the identifiers of a skipped campaign are assigned
\* to no group, and the reported total is N minus the skipped identifiers.
C4_ExhaustiveUnlessSkipped ==
    distribution_result.success =>
        LET skippedIins == UNION {Range(allocation[k].campaign_users) :
                                    k \in {j \in 1..Len(allocation) : allocation[j].skipped}}
        IN /\ Concat([k \in 1..Len(allocation) |-> allocation[k].campaign_users]) = iin_values
           /\ \A k \in 1..Len(allocation) :
                Planned(k) =>
                    Range(allocation[k].campaign_users)
                        = UNION {Range(PlanOf(k).groups[g].value.users) : g \in 1..Len(PlanOf(k).groups)}
           /\ AssignedIins = Range(iin_values) \ skippedIins
           /\ distribution_result.total_users_distributed
                = Len(iin_values) - Cardinality(skippedIins)

C4_Witness ==
    /\ distribution_result.success
    /\ \E k \in 1..Len(allocation) : allocation[k].skipped
    /\ \E k \in 1..Len(allocation) : Planned(k)
    /\ distribution_result.total_users_distributed < Len(iin_values)
    /\ distribution_result.total_users_distributed > 0

\* what get_existing_campaign_groups reads of the groups: type, sub-id, tabs
GroupMeta ==
    {<<"control", r.THEORY_ID, r.tab_values>> : r \in SC_local_control}
        \cup {<<"target", r.THEORY_ID, r.tab_values>> : r \in SC_local_target}

\* the sink writes added to the history by the current step
NewWrites == (Len(writes) + 1)..Len(writes')

\* C5: every sink write of a daily run passes the sub-id, the type and the
\* tab1..tab5 values that storage holds for the group, storage holds only
\* one such description of the group, and no step of the run changes the
\* type or tab metadata of any group.
C5_MetadataPreserved ==
    [][/\ \A k \in NewWrites :
            LET w == writes'[k]
            IN /\ <<w.group_type, w.call.theory_id, w.call.tab_values>> \in GroupMeta
               /\ \A m \in GroupMeta :
                    m[2] = w.call.theory_id
                        => m = <<w.group_type, w.call.theory_id, w.call.tab_values>>
       /\ pc # "idle" => GroupMeta' = GroupMeta]_vars

C5_Witness ==
    /\ pc = "done"
    /\ \E k \in 1..Len(writes) :
         /\ writes[k].group_type = "control"
         /\ writes[k].call.tab_values.tab1 = theory_description(0)
         /\ writes[k].call.result.inserted_count > 0
    /\ \E k \in 1..Len(writes) :
         /\ writes[k].group_type = "target"
         /\ writes[k].call.tab_values.tab2 = groupFields.tab2
         /\ writes[k].call.result.inserted_count > 0

\* C6: the write of a control group is a single write attempt, against the
\* control sink, and adds no row to the primary target sink or to the mirror.
C6_ControlSinkOnly ==
    [][\A k \in NewWrites :
          writes'[k].group_type = "control"
              => /\ writes'[k].call.sink = "SC_local_control"
                 /\ Len(writes') = Len(writes) + 1
                 /\ SC_local_target' = SC_local_target
                 /\ SC_theory_users' = SC_theory_users]_vars

C6_Witness ==
    \E k \in 1..Len(writes) :
        /\ writes[k].group_type = "control"
        /\ writes[k].call.result.success
        /\ Len(writes[k].call.iin_values) >= 1
        /\ \A i \in Range(writes[k].call.iin_values) :
             Row(i, writes[k].call.theory_id, writes[k].call.tab_values) \in SC_local_control

\* C7: the write of a target group attempts the primary target sink and then
\* the mirror, with the same identifiers, sub-id and tab values, whether the
\* primary attempt succeeded or failed.
C7_BothSinksAttempted ==
    \A k \in 1..Len(writes) :
        /\ writes[k].group_type = "target"
             => writes[k].call.sink \in {"SC_local_target", "SC_theory_users"}
        /\ writes[k].call.sink = "SC_local_target"
             => /\ k < Len(writes)
                /\ writes[k + 1].call.sink = "SC_theory_users"
                /\ writes[k + 1].campaign = writes[k].campaign
                /\ writes[k + 1].group = writes[k].group
                /\ writes[k + 1].call.theory_id = writes[k].call.theory_id
                /\ writes[k + 1].call.iin_values = writes[k].call.iin_values
                /\ writes[k + 1].call.tab_values = writes[k].call.tab_values
                /\ writes[k + 1].call.env.fault # "connect"
                     => writes[k + 1].call.attempted = writes[k].call.iin_values

C7_Witness ==
    \E k \in 1..Len(writes) :
        /\ writes[k].call.sink = "SC_local_target"
        /\ ~writes[k].call.result.success
        /\ k < Len(writes)
        /\ writes[k + 1].call.sink = "SC_theory_users"
        /\ writes[k + 1].call.result.success
        /\ writes[k + 1].call.result.inserted_count > 0

\* the entry of group g of campaign c in the aggregated report
GroupResultAt(c, g) ==
    IF c <= Len(results.campaign_results)
    THEN results.campaign_results[c].group_results[g].value
    ELSE campaign_result.group_results[g].value

\* the target-group writes of the history, as positions of the primary write
TargetWrites == {k \in 1..Len(writes) : writes[k].call.sink = "SC_local_target" /\ k < Len(writes)}

\* C8 as stated: when the primary write succeeds and the mirror write fails
\* for every identifier, the overall result is success, the mirror part of
\* the report has success = false with the mirror's error message, and the
\* reported inserted count is the primary count alone.
C8_SecondaryFailureReported ==
    \A k \in TargetWrites :
        LET p == writes[k].call
            q == writes[k + 1].call
            entry == GroupResultAt(writes[k].campaign, writes[k].group)
        IN (p.result.success
              /\ (q.env.fault # "none" \/ Range(q.iin_values) \subseteq q.env.failed))
           => /\ entry.success
              /\ ~entry.detailed_results.spss.success
              /\ entry.detailed_results.spss.message.error # None
              /\ entry.inserted_count = p.result.inserted_count
              /\ entry.detailed_results.total_inserted = p.result.inserted_count

\* C8 amended: when the primary write succeeds and the mirror write fails as a
\* whole (its connection or its commit raises), the overall result is success,
\* the mirror part has success = false with the mirror's error message, and
\* the reported inserted count is the primary count alone; when instead every
\* identifier's INSERT into the mirror fails on its own, the mirror part
\* reports success = true with inserted_count 0.
C8_SecondaryUnavailableReported ==
    \A k \in TargetWrites :
        LET p == writes[k].call
            q == writes[k + 1].call
            entry == GroupResultAt(writes[k].campaign, writes[k].group)
        IN p.result.success
           => /\ entry.success
              /\ entry.inserted_count = p.result.inserted_count
              /\ q.env.fault # "none"
                   => /\ ~entry.detailed_results.spss.success
                      /\ entry.detailed_results.spss.message.error = q.env.fault
                      /\ entry.message.error = q.env.fault
                      /\ entry.detailed_results.total_inserted = p.result.inserted_count
              /\ (q.env.fault = "none" /\ Range(q.iin_values) \subseteq q.env.failed)
                   => /\ entry.detailed_results.spss.success
                      /\ entry.detailed_results.spss.inserted_count = 0
                      /\ entry.detailed_results.total_inserted = p.result.inserted_count

C8_Witness ==
    \E k \in TargetWrites :
        /\ writes[k].call.result.success
        /\ writes[k].call.result.inserted_count > 0
        /\ writes[k + 1].call.env.fault = "connect"
        /\ GroupResultAt(writes[k].campaign, writes[k].group).success
        /\ ~GroupResultAt(writes[k].campaign, writes[k].group).detailed_results.spss.success

SinkTable(sink) ==
    IF sink = "SC_local_control" THEN SC_local_control
    ELSE IF sink = "SC_local_target" THEN SC_local_target
    ELSE SC_theory_users

\* C9: a sink write that connects attempts every identifier of its list, in
\* order, whichever of them fail; when connection and commit hold, it reports
\* success, inserted_count is the number of identifiers whose INSERT did not
\* fail, and exactly these identifiers were written by it.
C9_PerIdentifierFailures ==
    \A k \in 1..Len(writes) :
        LET c == writes[k].call
        IN /\ c.env.fault # "connect" => c.attempted = c.iin_values
           /\ c.env.fault = "none"
                => /\ c.result.success
                   /\ c.result.inserted_count = Cardinality(Range(c.iin_values) \ c.env.failed)
                   /\ \A i \in Range(c.iin_values) \ c.env.failed :
                        Row(i, c.theory_id, c.tab_values) \in SinkTable(c.sink)

C9_Witness ==
    \E k \in 1..Len(writes) :
        LET c == writes[k].call
        IN /\ c.env.fault = "none"
           /\ Len(c.iin_values) >= 2
           /\ c.iin_values[1] \in c.env.failed
           /\ c.iin_values[2] \notin c.env.failed
           /\ c.result.success
           /\ c.result.inserted_count = Len(c.iin_values) - 1

\* C10: when the campaign query succeeds and no campaign is active, the run
\* ends at once with success = true, skip_reason "no_active_campaigns" and no
\* error_message.
C10_NoActiveCampaignsIsSkip ==
    [][(/\ pc = "idle"
        /\ pc' # "idle"
        /\ faults' = faults
        /\ \A r \in SoftCollection_theories : ~r.active)
       => /\ pc' = "done"
          /\ process_result'.success
          /\ process_result'.skip_reason = "no_active_campaigns"
          /\ process_result'.error_message = None]_vars

C10_Witness ==
    /\ pc = "done"
    /\ SoftCollection_theories # {}
    /\ process_result.skip_reason = "no_active_campaigns"
    /\ process_result.success
    /\ faults = 0

\* the run returned after the writer went through every campaign of the plan
WriterFinished ==
    /\ pc = "done"
    /\ distribution_result.success
    /\ ci > Len(distribution_result.distributions)

\* the writes of the groups themselves: the control write or the primary write
GroupWrites == {k \in 1..Len(writes) : writes[k].call.sink # "SC_theory_users"}

\* C11 as stated: once the writer has processed every campaign of the plan the
\* run ends completed, whether every group write succeeded or only some did,
\* and a run that ends with an error has processed no campaign.
C11_CompletedAfterProcessing ==
    /\ WriterFinished => /\ process_result.process_stage = "completed"
                         /\ process_result.success
    /\ (pc = "done" /\ process_result.error_message # None) => Len(writes) = 0

\* C11 amended: once the writer has processed every campaign of the plan the
\* run ends completed with success = true exactly when every group write
\* reported success; when a group write failed the run ends with success =
\* false at stage "inserting_users" with an error message, after all campaigns
\* were processed.  users_distributed is the writer's total either way, and a
\* run that failed at an earlier stage has written nothing.
C11_CompletedIffGroupWritesSucceed ==
    /\ WriterFinished =>
         /\ process_result.users_distributed = results.total_inserted
         /\ Len(results.campaign_results) = Len(distribution_result.distributions)
         /\ IF \A k \in GroupWrites : writes[k].call.result.success
            THEN /\ process_result.process_stage = "completed"
                 /\ process_result.success
                 /\ process_result.error_message = None
            ELSE /\ process_result.process_stage = "inserting_users"
                 /\ ~process_result.success
                 /\ process_result.error_message = "Insertion failed"
    /\ (pc = "done" /\ process_result.process_stage
                          \in {"getting_active_campaigns", "getting_spss_users", "distributing_users"})
         => Len(writes) = 0

\* a run that processed two groups, one write failed and one succeeded
C11_Witness ==
    /\ WriterFinished
    /\ \E j, k \in GroupWrites : /\ ~writes[j].call.result.success
                                  /\ writes[k].call.result.success
                                  /\ writes[k].call.result.inserted_count > 0
    /\ process_result.process_stage = "inserting_users"
    /\ process_result.users_distributed > 0

\* C12: at most one daily distribution run executes at any time, however it
\* was started (cron job or manual test distribution), so no two executing
\* runs hold the same incoming identifiers.
C12_AtMostOneRun ==
    /\ Cardinality(Executing) <= 1
    /\ \A a, b \in Executing : a # b => run_iins[a] \cap run_iins[b] = {}

\* the base ids of the campaigns created by the stratification pipeline
StratifiedBases == {SplitFirst(t) : t \in {u \in TheoryIds : IsSCSubId(u)}}

\* the type of a group by its position: sub-id suffix 1 is control
TypeBySuffix(theory_id) == IF SplitLast(theory_id) = <<"1">> THEN "control" ELSE "target"

PlanEntries ==
    {distribution_result.distributions[p[1]].groups[p[2]].value : p \in PlanGroups}

\* C13: for every group of a campaign created by the stratification pipeline
\* the type the daily assigner uses equals the type given at creation: the
\* group with sub-id suffix 1 is control (its rows sit in the control sink
\* only), every other group is target (its rows sit in the target sinks
\* only), and every group the assigner reads or plans carries that type.
C13_TypesAgree ==
    /\ \A r \in SC_local_control : TypeBySuffix(r.THEORY_ID) = "control"
    /\ \A r \in SC_local_target \cup SC_theory_users : TypeBySuffix(r.THEORY_ID) = "target"
    /\ \A b \in StratifiedBases :
         LET groups == get_existing_campaign_groups(b)
         IN \A k \in 1..Len(groups) :
              /\ groups[k].value.group_type = TypeBySuffix(groups[k].key)
              /\ groups[k].value.table = IF TypeBySuffix(groups[k].key) = "control"
                                         THEN "SC_local_control" ELSE "SC_local_target"
    /\ \A g \in PlanEntries : g.group_type = TypeBySuffix(g.theory_id)
    /\ \A k \in 1..Len(writes) :
         (writes[k].call.sink = "SC_local_control") <=> (TypeBySuffix(writes[k].call.theory_id) = "control")

\* a run that wrote identifiers into a control group and into a target group
\* of a stratified campaign
C13_Witness ==
    /\ pc = "done"
    /\ \E j, k \in 1..Len(writes) :
         /\ writes[j].group_type = "control" /\ writes[j].call.result.inserted_count > 0
         /\ writes[k].group_type = "target" /\ writes[k].call.result.inserted_count > 0
         /\ SplitFirst(writes[j].call.theory_id) = SplitFirst(writes[k].call.theory_id)
         /\ SplitFirst(writes[j].call.theory_id) \in StratifiedBases

\* the run went through distribute_users_to_campaigns
DistributionRan ==
    \/ pc = "inserting_users"
    \/ pc = "done" /\ process_result.process_stage
                        \in {"distributing_users", "inserting_users", "completed"}

\* storage holds no group of the campaign at position k
NoGroupsAt(k) == Len(get_existing_campaign_groups(SplitFirst(campaigns[k].theory_id))) = 0

\* the identifiers planned for the campaign at position k, in plan order
PlannedUsers(k) ==
    LET d == PlanOf(k) IN Concat([g \in 1..Len(d.groups) |-> d.groups[g].value.users])

\* C14: a campaign for which storage returns no existing groups is skipped as
\* a no-op: the distribution still succeeds, the campaign has no entry in the
\* plan and none of the identifiers allocated to it is written to any sink,
\* every later campaign is planned with exactly its own allocation, and a run
\* whose group writes all succeed still ends completed with success = true.
C14_SkipIsNoOp ==
    DistributionRan =>
        /\ distribution_result.success
        /\ Len(allocation) = Len(campaigns)
        /\ \A k \in 1..Len(campaigns) :
             (NoGroupsAt(k) \/ allocation[k].skipped) =>
                 /\ ~Planned(k)
                 /\ \A w \in 1..Len(writes) :
                      Range(writes[w].call.iin_values) \cap Range(allocation[k].campaign_users) = {}
                 /\ \A j \in (k + 1)..Len(campaigns) :
                      Planned(j) => PlannedUsers(j) = allocation[j].campaign_users
        /\ (WriterFinished /\ \A w \in GroupWrites : writes[w].call.result.success)
             => /\ process_result.success
                /\ process_result.process_stage = "completed"

\* a completed run whose first campaign had no groups and was allocated
\* identifiers, and whose later campaign was written
C14_Witness ==
    /\ WriterFinished
    /\ Len(campaigns) >= 2
    /\ NoGroupsAt(1)
    /\ allocation[1].skipped
    /\ Len(allocation[1].campaign_users) > 0
    /\ Planned(2)
    /\ \E w \in 1..Len(writes) : writes[w].call.result.inserted_count > 0
    /\ process_result.success
    /\ process_result.process_stage = "completed"

\* stratify_data returned a response
StratifyReturned == st_pc = "returned"

\* sum(group.num_rows for group in stratified_groups)
RowCountSum ==
    SumSeq([i \in 1..Len(response.stratified_groups) |-> response.stratified_groups[i].num_rows])

\* the rows of the request in sufficiently populated strata, less the test split
RowsToSplit ==
    Cardinality(Sufficient(request)) - (IF test_df = Nothing THEN 0 ELSE Cardinality(test_df[1]))

\* the run split the frame on the sampled path
SampledRun == Sampled(df, request)

GroupsOf(r) == {i \in 1..Len(response.stratified_groups) : r \in response.stratified_groups[i].data}

\* C16: in every stratification result, on the regular path and on the
\* sampled path alike, every included record belongs to exactly one group:
\* no record appears in two groups and no included record is left out.
C16_ExactPartition ==
    StratifyReturned => \A r \in df : Cardinality(GroupsOf(r)) = 1

\* rows of stratum s over all groups of the response
StratumDraws(s) ==
    SumSeq([i \in 1..Len(response.stratified_groups) |->
               Cardinality(StratumOf(response.stratified_groups[i].data, s))])

\* C17: when the rows exceed max_memory_rows and sampling is enabled, the
\* extrapolated groups never overcount: for every stratum the draw counts
\* summed over all groups do not exceed the stratum's size, so the row counts
\* sum to at most total_rows, and memory_efficient_processing is true.
C17_NeverOvercount ==
    (StratifyReturned /\ SampledRun) =>
        /\ \A s \in Strata(df) : StratumDraws(s) <= Cardinality(StratumOf(df, s))
        /\ RowCountSum <= response.total_rows
        /\ response.memory_info.memory_efficient_processing

\* stratify_data is inside or past the loop that looks for a split meeting
\* the p-value criteria
IterativeRun == st_pc # "idle" /\ Iterative

\* the attempt at position k (1-based) met the criteria: no monitored column
\* has a p-value below min_p_value in any group
Meets(k) ==
    \A col \in DOMAIN attempts[k].min_p_values :
        \/ attempts[k].min_p_values[col] = Nothing
        \/ attempts[k].min_p_values[col][1] >= request.min_p_value[1]

\* C18: when both min_p_value and a monitored-column list are supplied, the
\* loop makes at least one and at most max_iterations attempts, makes no
\* attempt after the first one that meets the criteria, uses the seed
\* random_state + i * 1000 for attempt i (counted from 0), and the response
\* reports iterations_performed equal to the number of attempts made.
C18_BoundedAttempts ==
    IterativeRun =>
        /\ Len(attempts) = iteration
        /\ Len(attempts) <= request.max_iterations
        /\ \A k \in 1..Len(attempts) :
             /\ attempts[k].seed = request.random_state + (k - 1) * SeedStride
             /\ k < Len(attempts) => ~Meets(k)
        /\ StratifyReturned =>
             /\ Len(attempts) >= 1
             /\ response.iteration_info[1].iterations_performed = Len(attempts)
             /\ Len(attempts) < request.max_iterations => Meets(Len(attempts))

\* a run that stopped after its second attempt, which met the criteria,
\* with an attempt of its budget left
C18_Witness ==
    /\ IterativeRun
    /\ StratifyReturned
    /\ Len(attempts) = 2
    /\ request.max_iterations > 2
    /\ ~Meets(1)
    /\ Meets(2)
    /\ response.iteration_info[1].iterations_performed = 2

\* a run that used its whole budget without meeting the criteria
C18_WitnessExhausted ==
    /\ IterativeRun
    /\ StratifyReturned
    /\ Len(attempts) = request.max_iterations
    /\ \A k \in 1..Len(attempts) : ~Meets(k)

\* the loop is over, with or without a response
LoopOver == IterativeRun /\ st_pc \in {"returned", "raised"}

\* the minimum p-value of attempt k over all monitored (column, group) pairs
AttemptMin(k) == SetMin(NotNone(attempts[k].min_p_values))

\* the groups of the response, as the rows they hold
ReturnedSplits ==
    [i \in 1..Len(response.stratified_groups) |-> response.stratified_groups[i].data]

\* the response returns the groups and the per-column minima of attempt k
ReturnsAttempt(k) ==
    /\ ReturnedSplits = attempts[k].splits
    /\ response.iteration_info[1].achieved_min_p_values = Some(attempts[k].min_p_values)

\* every attempt of the budget was made and none met the criteria
BudgetExhausted ==
    /\ Len(attempts) = request.max_iterations
    /\ \A k \in 1..Len(attempts) : ~Meets(k)

\* C19: if no attempt meets the criteria within max_iterations, stratify_data
\* still returns a result, and the returned groups are those of the attempt
\* whose minimum p-value over all monitored (column, group) pairs is the
\* highest among all attempts made, with criteria_met = false and
\* achieved_min_p_values equal to that attempt's per-column minima.
C19_BestAttemptReturned ==
    (LoopOver /\ BudgetExhausted) =>
        /\ StratifyReturned
        /\ ~response.iteration_info[1].criteria_met
        /\ \E k \in 1..Len(attempts) :
             /\ ReturnsAttempt(k)
             /\ \A j \in 1..Len(attempts) : AttemptMin(k) >= AttemptMin(j)

\* in the groups of the response every monitored column's p-value is at
\* least min_p_value
ReturnedGroupsMeet ==
    \A i \in 1..Len(response.stratified_groups) :
        \A col \in Range(request.ks_test_columns[1]) :
            response.stratified_groups[i].test_statistics[1][col] >= request.min_p_value[1]

\* C20: criteria_met in the response is true iff, in the groups actually
\* returned, every monitored column's p-value in every group is at least
\* min_p_value; whenever criteria_met is true the returned split is the
\* attempt that met the criteria, which is the last attempt made.
C20_CriteriaMetIffReturnedGroupsMeet ==
    (IterativeRun /\ StratifyReturned) =>
        /\ response.iteration_info[1].criteria_met <=> ReturnedGroupsMeet
        /\ response.iteration_info[1].criteria_met =>
             /\ Meets(Len(attempts))
             /\ ReturnsAttempt(Len(attempts))

\* a run whose first attempt was recorded as the best so far without meeting
\* the criteria and whose second attempt met them and was returned
C20_Witness ==
    /\ IterativeRun
    /\ StratifyReturned
    /\ Len(attempts) = 2
    /\ AttemptMin(1) > 0
    /\ ~Meets(1)
    /\ response.iteration_info[1].criteria_met
    /\ ReturnedGroupsMeet
    /\ ReturnsAttempt(2)

\* the columns whose test raised and that the loop has dealt with
FailedTests ==
    {k \in 1..Len(test_columns) :
        /\ test_columns[k].event = "fails"
        /\ k <= Len(test_dict) \/ (bt_pc = "raised" /\ k = Len(test_dict) + 1)}

\* C21: a failure inside a balance test never propagates to the caller and
\* is never reported as balanced: for numeric and categorical columns, on the
\* regular and on the extrapolated path, the affected column gets p_value 0.0
\* with an error test kind.
C21_TestFailuresAreConservative ==
    /\ bt_pc # "raised"
    /\ \A k \in FailedTests :
         /\ test_dict[k].p_value = 0
         /\ test_dict[k].test_type \in {"error", "chi2_test_failed"}

\* the request passed the validation of its shape and of its threshold
WellFormed(req) ==
    /\ (req.given.n_splits = Nothing) # (req.given.split_sizes = Nothing)
    /\ req.given.n_splits # Nothing => req.given.n_splits[1] \in MinSplits..MaxSplitsAllowed
    /\ req.given.split_sizes # Nothing =>
         /\ Len(req.given.split_sizes[1]) \in MinSplits..MaxSplitsAllowed
         /\ \A i \in 1..Len(req.given.split_sizes[1]) :
              req.given.split_sizes[1][i] \in 1..(Whole - 1)
         /\ SumFrom(req.given.split_sizes[1], 1) = Whole
    /\ req.min_p_value # Nothing => req.ks_test_columns # Nothing

\* members a stratum needs: n_splits, and one more with a test split
RequiredMembers(req) == req.n_splits + (IF req.test_size > 0 THEN 1 ELSE 0)

\* the strata of the request with that many members
RetainedStrata(req) == {s \in 1..Len(req.data) : req.data[s] >= RequiredMembers(req)}

\* the rows stratify_data kept: the frame to split and the test split
Pool == df \cup (IF test_df = Nothing THEN {} ELSE test_df[1])

InsufficientStrata == "Not enough unique strata after removing insufficient ones."

\* C22: stratify_data drops every stratum with fewer members than n_splits
\* (n_splits + 1 when a test split is requested) before splitting; it fails
\* with the insufficient-strata error iff fewer than 2 strata remain; when it
\* proceeds, the rows kept are exactly the rows of the strata with at least
\* that many members.
C22_InsufficientStrataDropped ==
    (st_pc # "idle" /\ WellFormed(request)) =>
        /\ st_error = InsufficientStrata <=> Cardinality(RetainedStrata(request)) < 2
        /\ st_pc \in {"splitting", "returned"} =>
             Pool = {r \in DataFrame(request.data) : r[1] \in RetainedStrata(request)}

\* a stratum with exactly n_splits members is dropped for the test split
C22_Witness ==
    /\ st_pc = "splitting"
    /\ request.test_size > 0
    /\ \E s \in 1..Len(request.data) : request.data[s] = request.n_splits
    /\ Cardinality(Strata(Pool)) >= 2

\* fewer than 2 strata remain and the run fails
C22_WitnessError ==
    /\ st_pc = "raised"
    /\ st_error = InsufficientStrata
    /\ Cardinality(RetainedStrata(request)) = 1

\* a malformed request: neither or both of n_splits and split_sizes, fewer
\* than 2 or more than 10 split sizes, a split size outside (0, 1), split
\* sizes that do not sum to 1.0, a threshold without monitored columns
Malformed(req) ==
    \/ (req.given.n_splits = Nothing) = (req.given.split_sizes = Nothing)
    \/ /\ req.given.split_sizes # Nothing
       /\ \/ Len(req.given.split_sizes[1]) \notin MinSplits..MaxSplitsAllowed
          \/ \E i \in 1..Len(req.given.split_sizes[1]) :
               req.given.split_sizes[1][i] \notin 1..(Whole - 1)
          \/ SumFrom(req.given.split_sizes[1], 1) # Whole
    \/ req.min_p_value # Nothing /\ req.ks_test_columns = Nothing

ConfigErrors ==
    {"Invalid stratification request", "Number of split_sizes must be between 2 and 10."}

\* C23: a malformed stratification request is rejected with an error before
\* any strata removal, sampling, splitting or balance test: no row is kept,
\* no attempt is made and nothing is returned.
C23_MalformedRequestRejected ==
    (st_pc # "idle" /\ Malformed(request)) =>
        /\ st_pc = "raised"
        /\ st_error \in ConfigErrors
        /\ df = {} /\ test_df = Nothing
        /\ iteration = 0 /\ attempts = <<>> /\ best_splits = Nothing
        /\ response = NoResponse

\* split sizes that do not sum to 1.0 were rejected
C23_Witness ==
    /\ st_pc = "raised"
    /\ request.given.split_sizes # Nothing
    /\ Len(request.given.split_sizes[1]) = 2
    /\ SumFrom(request.given.split_sizes[1], 1) < Whole
    /\ st_error = "Invalid stratification request"

\* eleven split sizes were rejected
C23_WitnessEleven ==
    /\ st_pc = "raised"
    /\ request.given.split_sizes # Nothing
    /\ Len(request.given.split_sizes[1]) > MaxSplitsAllowed
    /\ st_error = "Number of split_sizes must be between 2 and 10."

\* the identifiers of S in one of the orders list(set(...)) can yield
SetList(S, order) == IF order = "ascending" THEN SortNums(S) ELSE Reverse(SortNums(S))

\* the slice of campaign k when the same set of identifiers is listed in order
SliceFor(order, k) ==
    DistributeCampaigns(SetList(Range(iin_values), order), campaigns, {}, 0, 0).allocation[k].campaign_users

\* C24: the daily split is deterministic at the level of identifiers: runs
\* that fetch the same set of identifiers, the same active campaigns and the
\* same existing groups assign every identifier to the same campaign, in
\* whatever order the set of identifiers is listed.
C24_SplitDeterministic ==
    \A order \in SetOrders : \A k \in 1..Len(allocation) :
        Range(SliceFor(order, k)) = Range(allocation[k].campaign_users)

\* the run ended with a skip_reason
SkippedRun == pc = "done" /\ process_result.skip_reason # None

\* C25: a daily run that ends with a skip_reason has not invoked the
\* distribution step and has attempted no write; the three sinks change only
\* in a write step of a run, which a skipped run never takes; with zero
\* active campaigns the identifiers are not fetched.
C25_SkippedRunWritesNothing ==
    /\ [](SkippedRun =>
            /\ process_result.success
            /\ distribution_result = NoDistribution /\ allocation = <<>>
            /\ results = NoResults /\ writes = <<>>
            /\ process_result.users_distributed = 0
            /\ process_result.skip_reason = "no_active_campaigns" =>
                  iin_values = <<>> /\ process_result.users_found = 0)
    /\ [][(pc # "idle" /\ <<SC_local_control, SC_local_target, SC_theory_users>>'
                            # <<SC_local_control, SC_local_target, SC_theory_users>>)
             => pc = "inserting_users" /\ Len(writes') > Len(writes)]_vars

\* a run skipped for want of identifiers while campaigns with rows exist
C25_Witness ==
    /\ SkippedRun
    /\ process_result.skip_reason = "no_count_day_5_users"
    /\ SC_local_target # {}

\* a run skipped for want of active campaigns
C25_WitnessNoCampaigns ==
    /\ SkippedRun
    /\ process_result.skip_reason = "no_active_campaigns"

\* positions in writes of the calls against one of the sinks
WritesTo(sinks) == {k \in 1..Len(writes) : writes[k].call.sink \in sinks}

\* rows the control and the primary target writes of the run inserted
PrimaryInsertions ==
    SumFn([k \in 1..Len(writes) |-> writes[k].call.result.inserted_count],
          WritesTo({"SC_local_control", "SC_local_target"}))

\* the plan was written out: every control and primary write succeeded
\* while the mirror was unavailable in every target write
MirrorOutageRun ==
    /\ pc = "done"
    /\ distribution_result.success
    /\ WritesTo({"SC_theory_users"}) # {}
    /\ \A k \in WritesTo({"SC_local_control", "SC_local_target"}) : writes[k].call.result.success
    /\ \A k \in WritesTo({"SC_theory_users"}) : writes[k].call.env.fault = "connect"

\* C26: if every control write and every primary target write of a daily
\* run succeeds while the mirror is unavailable for every target group, the
\* run ends with success = true in stage completed, without error_message,
\* and users_distributed is the number of control plus primary insertions.
C26_MirrorOutageIsSuccess ==
    MirrorOutageRun =>
        /\ process_result.success
        /\ process_result.process_stage = "completed"
        /\ process_result.error_message = None
        /\ process_result.users_distributed = PrimaryInsertions

\* a run with a control group and two target groups, the mirror down for both
C26_Witness ==
    /\ MirrorOutageRun
    /\ Cardinality(WritesTo({"SC_theory_users"})) >= 2
    /\ WritesTo({"SC_local_control"}) # {}
    /\ process_result.users_distributed >= 3

\* the groups of the plan, as pairs of campaign and group position
PlannedGroups ==
    {cg \in (1..Len(distribution_result.distributions)) \X (1..MaxGroups) :
        cg[2] <= Len(distribution_result.distributions[cg[1]].groups)}

\* the control or primary write of the group at cg
WritesOf(cg) == {k \in GroupWrites : writes[k].campaign = cg[1] /\ writes[k].group = cg[2]}

\* inserted_count over the groups of campaign c recorded as successful
CountedIn(c) ==
    LET report == results.campaign_results[c].group_results
    IN SumFn([g \in 1..Len(report) |-> report[g].value.inserted_count],
             {g \in 1..Len(report) : report[g].value.success})

\* C27: a failed write of one group does not stop the daily run: every
\* group of every campaign of the plan is attempted and recorded; a group
\* whose write failed is recorded with success = false and inserted_count 0
\* and adds nothing to total_inserted.
C27_FailedGroupDoesNotStopRun ==
    WriterFinished =>
        /\ Len(results.campaign_results) = Len(distribution_result.distributions)
        /\ \A cg \in PlannedGroups :
             /\ Cardinality(WritesOf(cg)) = 1
             /\ Len(results.campaign_results[cg[1]].group_results) >= cg[2]
             /\ \A k \in WritesOf(cg) :
                  /\ GroupResultAt(cg[1], cg[2]).theory_id = writes[k].call.theory_id
                  /\ GroupResultAt(cg[1], cg[2]).success = writes[k].call.result.success
             /\ ~GroupResultAt(cg[1], cg[2]).success => GroupResultAt(cg[1], cg[2]).inserted_count = 0
        /\ \A c \in 1..Len(results.campaign_results) :
             results.campaign_results[c].total_inserted = CountedIn(c)
        /\ results.total_inserted =
             SumFn([c \in 1..Len(results.campaign_results) |-> CountedIn(c)],
                   1..Len(results.campaign_results))

\* the first group of the first campaign failed after its loop had run, and
\* a later group and a later campaign were written
C27_Witness ==
    /\ WriterFinished
    /\ Len(results.campaign_results) >= 2
    /\ Len(results.campaign_results[1].group_results) >= 2
    /\ ~GroupResultAt(1, 1).success
    /\ \E k \in WritesOf(<<1, 1>>) : writes[k].call.env.fault = "commit"
    /\ GroupResultAt(1, 2).inserted_count > 0
    /\ GroupResultAt(2, 1).inserted_count > 0

\* the (identifier, sub-id) pairs of the rows of a sink
Pairs(table) == {<<r.IIN, r.THEORY_ID>> : r \in table}

\* C28: after any sequence of target-group writes with per-identifier and
\* per-sink failures, every (identifier, sub-id) pair present in the
\* secondary mirror is also present in the primary target sink.
C28_MirrorWithinPrimary == Pairs(SC_theory_users) \subseteq Pairs(SC_local_target)

\* every run so far was started by the cron trigger, whose job runs one
\* instance at a time: the runs did not overlap
SerializedRuns == requests = 0

\* C29: over any sequence of serialized daily runs, an identifier that an
\* earlier run wrote to a group is never written again by a later run while
\* it keeps qualifying.
C29_WrittenOnce == SerializedRuns => \A i \in Candidates : sink_rows[i] <= 1

\* theory_id is base, a dot and a group number
BelongsTo(theory_id, base) ==
    /\ Len(theory_id) > Len(base) + 1
    /\ SubSeq(theory_id, 1, Len(base)) = base
    /\ theory_id[Len(base) + 1] = "."
    /\ AllDigits(SubSeq(theory_id, Len(base) + 2, Len(theory_id)))

\* the positions in campaigns of the campaign of distribution d
PositionsOf(d) == {p \in 1..Len(campaigns) : campaigns[p] = d.campaign}

\* the existing groups of the campaign at p that get a non-empty slice
Served(p) ==
    {i \in 0..(Len(allocation[p].existing_groups) - 1) :
        users_for_group(i, Len(allocation[p].campaign_users), Len(allocation[p].existing_groups)) > 0}

====
